---- MODULE Spec2Model ----
(***************************************************************************)
(* Model of the validation-and-routing pipeline of helixsoft_avalon.py:    *)
(* ClinicalDataValidator (_validate_filename_pattern,                      *)
(* _validate_csv_content, _log_error, _save_processed_file, process_file,  *)
(* validate_file).                                                         *)
(*                                                                         *)
(* Text is modelled as sequences of one-character strings, so that the     *)
(* regular expression, int() and strptime() are computed character by      *)
(* character.  Messages are TLA+ strings built by concatenation.           *)
(***************************************************************************)
EXTENDS Integers, Sequences, FiniteSets, TLC

\* ------------------------------------------------------------------------
\* Characters
\* ------------------------------------------------------------------------

DigitChars == <<"0", "1", "2", "3", "4", "5", "6", "7", "8", "9">>

Digits == {DigitChars[i] : i \in 1..10}

UpperCase ==
  <<"A", "B", "C", "D", "E", "F", "G", "H", "I", "J", "K", "L", "M",
    "N", "O", "P", "Q", "R", "S", "T", "U", "V", "W", "X", "Y", "Z">>

LowerCase ==
  <<"a", "b", "c", "d", "e", "f", "g", "h", "i", "j", "k", "l", "m",
    "n", "o", "p", "q", "r", "s", "t", "u", "v", "w", "x", "y", "z">>

\* The characters of the model in code-point order.
Alphabet ==
  <<"\t", "\n", "\r", " ", "+", "-", ".">> \o DigitChars \o UpperCase
  \o <<"_">> \o LowerCase

\* ord(c), up to an order-preserving renumbering
Ord(c) == CHOOSE i \in 1..Len(Alphabet) : Alphabet[i] = c

\* str.lower() of one character, as re.IGNORECASE compares (ASCII letters).
Lower(c) ==
  IF \E i \in 1..Len(UpperCase) : UpperCase[i] = c
    THEN LowerCase[CHOOSE i \in 1..Len(UpperCase) : UpperCase[i] = c]
    ELSE c

\* The text of a character sequence.
RECURSIVE Str(_)
Str(s) == IF s = <<>> THEN "" ELSE Head(s) \o Str(Tail(s))

\* F of the value of v, with v evaluated once
Bind(v, F(_)) == CHOOSE y \in {F(x) : x \in {v}} : TRUE

\* n copies of x
RECURSIVE Rep(_, _)
Rep(x, n) == IF n = 0 THEN <<>> ELSE <<x>> \o Rep(x, n - 1)

\* ------------------------------------------------------------------------
\* _validate_filename_pattern: re.match(pattern, filename, re.IGNORECASE)
\* ------------------------------------------------------------------------

\* \d{14}
TimestampDigits == 14

Lit(s) == [i \in 1..Len(s) |-> [kind |-> "lit", ch |-> s[i]]]

\* r'^CLINICALDATA_\d{14}\.CSV$'
pattern ==
  <<[kind |-> "bol", ch |-> ""]>>
  \o Lit(<<"C", "L", "I", "N", "I", "C", "A", "L", "D", "A", "T", "A", "_">>)
  \o Rep([kind |-> "digit", ch |-> ""], TimestampDigits)
  \o Lit(<<".">>)
  \o Lit(<<"C", "S", "V">>)
  \o <<[kind |-> "eol", ch |-> ""]>>

\* '$' without re.MULTILINE: at the end of the string, or just before a
\* line break that is the last character of the string.
AtDollar(s, pos) ==
  \/ pos = Len(s) + 1
  \/ pos = Len(s) /\ s[pos] = "\n"

\* Whether one pattern item matches at position pos of s.
Step(item, s, pos) ==
  CASE item.kind = "bol" -> pos = 1
    [] item.kind = "eol" -> AtDollar(s, pos)
    [] item.kind = "lit" -> pos <= Len(s) /\ Lower(s[pos]) = Lower(item.ch)
    [] item.kind = "digit" -> pos <= Len(s) /\ s[pos] \in Digits

\* The number of characters an item consumes: anchors none, the others one.
Width(item) == IF item.kind \in {"bol", "eol"} THEN 0 ELSE 1

\* re.match: the pattern's items matched in sequence from the string's start
\* (every item has a fixed width, so there is nothing to backtrack).
RECURSIVE MatchFrom(_, _, _, _)
MatchFrom(pat, i, s, pos) ==
  IF i > Len(pat) THEN TRUE
  ELSE /\ Step(pat[i], s, pos)
       /\ MatchFrom(pat, i + 1, s, pos + Width(pat[i]))

ReMatch(pat, s) == MatchFrom(pat, 1, s, 1)

_validate_filename_pattern(filename) == ReMatch(pattern, filename)

\* ------------------------------------------------------------------------
\* Filenames
\* ------------------------------------------------------------------------

Prefix == <<"C", "L", "I", "N", "I", "C", "A", "L", "D", "A", "T", "A", "_">>

Stamp1 == <<"2", "0", "2", "5", "0", "1", "1", "5", "1", "2", "0", "0", "0", "0">>

\* month 13, day 99
Stamp2 == <<"2", "0", "2", "5", "1", "3", "9", "9", "1", "2", "0", "0", "0", "0">>

ExtLower == <<".", "c", "s", "v">>

ExtUpper == <<".", "C", "S", "V">>

NameGood1 == Prefix \o Stamp1 \o ExtLower

NameGood2 == <<"c", "l", "i", "n", "i", "c", "a", "l", "d", "a", "t", "a", "_">>
             \o Stamp2 \o ExtUpper

NameBadContent == Prefix \o Stamp2 \o ExtLower

NameWrong == <<"w", "r", "o", "n", "g", "n", "a", "m", "e", ".", "c", "s", "v">>

\* ------------------------------------------------------------------------
\* Python primitives used by _validate_csv_content
\* ------------------------------------------------------------------------

IsSpace(c) == c \in {" ", "\t", "\n", "\r"}

RECURSIVE LStrip(_)
LStrip(s) == IF s # <<>> /\ IsSpace(Head(s)) THEN LStrip(Tail(s)) ELSE s

RECURSIVE RStrip(_)
RStrip(s) ==
  IF s # <<>> /\ IsSpace(s[Len(s)]) THEN RStrip(SubSeq(s, 1, Len(s) - 1)) ELSE s

\* str.strip()
Strip(s) == RStrip(LStrip(s))

DigitVal(c) == CHOOSE i \in 0..9 : DigitChars[i + 1] = c

\* the value of a run of digits and underscores, most significant first
RECURSIVE NumVal(_, _)
NumVal(s, acc) ==
  IF s = <<>> THEN acc
  ELSE IF Head(s) = "_" THEN NumVal(Tail(s), acc)
  ELSE NumVal(Tail(s), 10 * acc + DigitVal(Head(s)))

\* int(text): surrounding whitespace, an optional sign, then digits, where a
\* single underscore may stand between two digits.  ok = FALSE is ValueError.
PyInt(text) ==
  LET t    == Strip(text)
      neg  == t # <<>> /\ Head(t) = "-"
      body == IF t # <<>> /\ Head(t) \in {"+", "-"} THEN Tail(t) ELSE t
      ok   == /\ body # <<>>
              /\ \A i \in 1..Len(body) :
                   \/ body[i] \in Digits
                   \/ /\ body[i] = "_"
                      /\ 1 < i /\ i < Len(body)
                      /\ body[i - 1] \in Digits /\ body[i + 1] \in Digits
  IN  [ok |-> ok,
       val |-> IF ~ok THEN 0
               ELSE IF neg THEN 0 - NumVal(body, 0) ELSE NumVal(body, 0)]

\* the parts of s between occurrences of sep
RECURSIVE SplitOn(_, _, _)
SplitOn(s, sep, cur) ==
  IF s = <<>> THEN <<cur>>
  ELSE IF Head(s) = sep THEN <<cur>> \o SplitOn(Tail(s), sep, <<>>)
  ELSE SplitOn(Tail(s), sep, Append(cur, Head(s)))

AllDigits(s) == \A i \in 1..Len(s) : s[i] \in Digits

IsLeap(y) == (y % 4 = 0 /\ y % 100 # 0) \/ y % 400 = 0

DaysInMonth(y, m) ==
  IF m = 2 THEN (IF IsLeap(y) THEN 29 ELSE 28)
  ELSE IF m \in {4, 6, 9, 11} THEN 30 ELSE 31

\* datetime.strptime(text, "%Y-%m-%d"): %Y is \d\d\d\d, %m is
\* 1[0-2]|0[1-9]|[1-9], %d is 3[01]|[12]\d|0[1-9]|[1-9]| [1-9]; the whole
\* text must be consumed and the date must exist.  ok = FALSE is ValueError.
ParseDate(parts) ==
  LET shape == /\ Len(parts) = 3
               /\ Len(parts[1]) = 4 /\ AllDigits(parts[1])
               /\ Len(parts[2]) \in {1, 2} /\ AllDigits(parts[2])
               /\ \/ Len(parts[3]) \in {1, 2} /\ AllDigits(parts[3])
                  \/ /\ Len(parts[3]) = 2 /\ parts[3][1] = " "
                     /\ parts[3][2] \in Digits
      y == NumVal(parts[1], 0)
      m == NumVal(parts[2], 0)
      d == NumVal(IF parts[3][1] = " " THEN Tail(parts[3]) ELSE parts[3], 0)
      ok == /\ shape
            /\ y >= 1 /\ m \in 1..12
            /\ d >= 1 /\ d <= DaysInMonth(y, m)
  IN  [ok |-> ok, ord |-> IF ok THEN (y * 12 + m) * 31 + d ELSE 0]

Strptime(text) == Bind(SplitOn(text, "-", <<>>), ParseDate)

\* ", ".join(msgs)
RECURSIVE JoinComma(_)
JoinComma(msgs) ==
  IF msgs = <<>> THEN ""
  ELSE IF Len(msgs) = 1 THEN msgs[1]
  ELSE msgs[1] \o ", " \o JoinComma(Tail(msgs))

\* ------------------------------------------------------------------------
\* _validate_csv_content
\* ------------------------------------------------------------------------

FieldCount == 9

expected_fields ==
  <<<<"P", "a", "t", "i", "e", "n", "t", "I", "D">>,
    <<"T", "r", "i", "a", "l", "C", "o", "d", "e">>,
    <<"D", "r", "u", "g", "C", "o", "d", "e">>,
    <<"D", "o", "s", "a", "g", "e", "_", "m", "g">>,
    <<"S", "t", "a", "r", "t", "D", "a", "t", "e">>,
    <<"E", "n", "d", "D", "a", "t", "e">>,
    <<"O", "u", "t", "c", "o", "m", "e">>,
    <<"S", "i", "d", "e", "E", "f", "f", "e", "c", "t", "s">>,
    <<"A", "n", "a", "l", "y", "s", "t">>>>

\* ["Improved", "No Change", "Worsened"]
Outcomes ==
  {<<"I", "m", "p", "r", "o", "v", "e", "d">>,
   <<"N", "o", " ", "C", "h", "a", "n", "g", "e">>,
   <<"W", "o", "r", "s", "e", "n", "e", "d">>}

\* f"{patient_id}_{trial_code}_{drug_code}"
RecordKey(row) == row[1] \o <<"_">> \o row[2] \o <<"_">> \o row[3]

\* the checks of a row that let a dosage of zero pass
FieldErrorsZeroDosePasses(row, seen_records, dosage, start, end) ==
      (IF \E i \in 1..FieldCount : row[i] = <<>>
         THEN <<"Missing required fields">> ELSE <<>>)
      \o (IF ~dosage.ok THEN <<"Non-numeric dosage: " \o Str(row[4])>>
          ELSE IF dosage.val < 0 THEN <<"Invalid dosage: " \o Str(row[4])>>
          ELSE <<>>)
      \o (IF ~start.ok \/ ~end.ok THEN <<"Invalid date format">>
          ELSE IF end.ord < start.ord THEN <<"End date before start date">>
          ELSE <<>>)
      \o (IF row[7] \notin Outcomes
            THEN <<"Invalid outcome: " \o Str(row[7])>> ELSE <<>>)
      \o (IF RecordKey(row) \in seen_records
            THEN <<"Duplicate record">> ELSE <<>>)

\* the checks of one 9-field row on its parsed dosage and dates
field_errors(row, seen_records, dosage, start, end) ==
      (IF \E i \in 1..FieldCount : row[i] = <<>>
         THEN <<"Missing required fields">> ELSE <<>>)
      \o (IF ~dosage.ok THEN <<"Non-numeric dosage: " \o Str(row[4])>>
          ELSE IF dosage.val <= 0 THEN <<"Invalid dosage: " \o Str(row[4])>>
          ELSE <<>>)
      \o (IF ~start.ok \/ ~end.ok THEN <<"Invalid date format">>
          ELSE IF end.ord < start.ord THEN <<"End date before start date">>
          ELSE <<>>)
      \o (IF row[7] \notin Outcomes
            THEN <<"Invalid outcome: " \o Str(row[7])>> ELSE <<>>)
      \o (IF RecordKey(row) \in seen_records
            THEN <<"Duplicate record">> ELSE <<>>)

\* the messages of one 9-field row, given the keys seen so far
record_errors(row, seen_records) ==
  Bind(<<PyInt(row[4]), Strptime(row[5]), Strptime(row[6])>>,
       LAMBDA v : field_errors(row, seen_records, v[1], v[2], v[3]))

\* the loop over the data rows; row_num is the number of the last row read
RECURSIVE ScanRows(_, _, _, _, _)
ScanRows(rows, row_num, seen_records, errors, valid_records) ==
  IF rows = <<>>
    THEN [errors |-> errors, valid_records |-> valid_records]
  ELSE
    LET row == Head(rows)
        n   == row_num + 1
    IN  IF Len(row) # FieldCount
          THEN ScanRows(Tail(rows), n, seen_records,
                        Append(errors, "Row " \o ToString(n)
                                 \o ": Expected 9 fields, got "
                                 \o ToString(Len(row))),
                        valid_records)
        ELSE
          Bind(record_errors(row, seen_records),
               LAMBDA msgs :
                 ScanRows(Tail(rows), n, seen_records \cup {RecordKey(row)},
                          IF msgs # <<>>
                            THEN Append(errors, "Row " \o ToString(n) \o ": "
                                                  \o JoinComma(msgs))
                            ELSE errors,
                          IF msgs # <<>> THEN valid_records
                          ELSE valid_records + 1))

\* The report of a file that was read without error: its rows as the csv
\* reader yields them, the header first.
_validate_csv_content(content) ==
  IF content = <<>>
    THEN [is_valid |-> FALSE, errors |-> <<"File is empty">>, count |-> 0]
  ELSE IF Head(content) # expected_fields
    THEN [is_valid |-> FALSE, errors |-> <<"Invalid header structure">>,
          count |-> 0]
  ELSE
    Bind(ScanRows(Tail(content), 1, {}, <<>>, 0),
         LAMBDA r :
           IF r.errors # <<>>
             THEN [is_valid |-> FALSE, errors |-> r.errors,
                   count |-> r.valid_records]
             ELSE [is_valid |-> TRUE, errors |-> <<>>,
                   count |-> r.valid_records])

\* The report when opening, decoding or reading the file raised.
ReadErrorReport ==
  [is_valid |-> FALSE, errors |-> <<"File read error: OSError">>, count |-> 0]

\* ------------------------------------------------------------------------
\* The processed-files ledger: processed_files.txt
\* ------------------------------------------------------------------------

\* a < b as Python compares str
RECURSIVE LexLess(_, _)
LexLess(a, b) ==
  IF b = <<>> THEN FALSE
  ELSE IF a = <<>> THEN TRUE
  ELSE IF Head(a) = Head(b) THEN LexLess(Tail(a), Tail(b))
  ELSE Ord(Head(a)) < Ord(Head(b))

\* sorted(S)
RECURSIVE Sorted(_)
Sorted(S) ==
  IF S = {} THEN <<>>
  ELSE LET m == CHOOSE x \in S : \A y \in S \ {x} : LexLess(x, y)
       IN  <<m>> \o Sorted(S \ {m})

\* "\n".join(lines)
RECURSIVE JoinLines(_)
JoinLines(lines) ==
  IF lines = <<>> THEN <<>>
  ELSE IF Len(lines) = 1 THEN lines[1]
  ELSE lines[1] \o <<"\n">> \o JoinLines(Tail(lines))

\* str.splitlines(): a line ends at "\n", "\r" or "\r\n"; what follows the
\* last line break is a line only if it is not empty.
RECURSIVE SplitLines(_, _)
SplitLines(text, cur) ==
  IF text = <<>> THEN (IF cur = <<>> THEN <<>> ELSE <<cur>>)
  ELSE IF Head(text) = "\r" /\ Len(text) > 1 /\ text[2] = "\n"
    THEN <<cur>> \o SplitLines(Tail(Tail(text)), <<>>)
  ELSE IF Head(text) \in {"\n", "\r"}
    THEN <<cur>> \o SplitLines(Tail(text), <<>>)
  ELSE SplitLines(Tail(text), Append(cur, Head(text)))

Range(seq) == {seq[i] : i \in 1..Len(seq)}

\* the text _save_processed_file writes for a set of filenames
LedgerText(files) == JoinLines(Sorted(files))

\* _load_processed_files
_load_processed_files(file) ==
  IF file.exists THEN Range(SplitLines(file.text, <<>>)) ELSE {}

\* ------------------------------------------------------------------------
\* Directories: functions from the names present to file contents
\* ------------------------------------------------------------------------

EmptyDir == [n \in {} |-> <<>>]

Put(dir, name, content) ==
  [n \in DOMAIN dir \cup {name} |-> IF n = name THEN content ELSE dir[n]]

Remove(dir, name) == [n \in DOMAIN dir \ {name} |-> dir[n]]

\* ------------------------------------------------------------------------
\* Dates and canonical names
\* ------------------------------------------------------------------------

\* the last processing day of the model
MaxDay == 1

\* datetime.now().strftime("%Y%m%d") on day number day (day 1 = 2025-01-15)
Strftime(day) ==
  <<"2", "0", "2", "5", "0", "1",
    DigitChars[((14 + day) \div 10) + 1], DigitChars[((14 + day) % 10) + 1]>>

\* f"CLINICALDATA{current_date}.CSV"
CanonicalName(day) ==
  <<"C", "L", "I", "N", "I", "C", "A", "L", "D", "A", "T", "A">>
  \o Strftime(day) \o <<".", "C", "S", "V">>

\* self.download_dir / f"temp_validate_{filename}"
TempName(filename) ==
  <<"t", "e", "m", "p", "_", "v", "a", "l", "i", "d", "a", "t", "e", "_">>
  \o filename

\* ------------------------------------------------------------------------
\* The remote server's files
\* ------------------------------------------------------------------------

P001 == <<"P", "0", "0", "1">>

P002 == <<"P", "0", "0", "2">>

T001 == <<"T", "0", "0", "1">>

D001 == <<"D", "0", "0", "1">>

Date0101 == <<"2", "0", "2", "4", "-", "0", "1", "-", "0", "1">>

Date0131 == <<"2", "0", "2", "4", "-", "0", "1", "-", "3", "1">>

Improved == <<"I", "m", "p", "r", "o", "v", "e", "d">>

NoneText == <<"N", "o", "n", "e">>

DrSmith == <<"D", "r", ".", " ", "S", "m", "i", "t", "h">>

\* P001,T001,D001,100,2024-01-01,2024-01-31,Improved,None,Dr. Smith
RowA ==
  <<P001, T001, D001, <<"1", "0", "0">>, Date0101, Date0131, Improved,
    NoneText, DrSmith>>

\* P002,T001,D001,100,2024-01-01,2024-01-31,Improved,None,Dr. Smith
RowA2 ==
  <<P002, T001, D001, <<"1", "0", "0">>, Date0101, Date0131, Improved,
    NoneText, DrSmith>>

\* P001,T001,D001,-50,2024-01-01,2024-01-31,Improved,None,Dr. Smith
RowB ==
  <<P001, T001, D001, <<"-", "5", "0">>, Date0101, Date0131, Improved,
    NoneText, DrSmith>>

RowShort == <<P001, T001, D001>>

ContentGood1 == <<expected_fields, RowA>>

ContentGood2 == <<expected_fields, RowA2>>

\* two defect entries: row 2 (dosage) and row 3 (field count)
ContentBad == <<expected_fields, RowB, RowShort>>

RemoteNames == {NameGood1, NameGood2, NameBadContent, NameWrong}

\* the files on the FTP server
remote ==
  [n \in RemoteNames |->
     CASE n = NameGood1 -> ContentGood1
       [] n = NameGood2 -> ContentGood2
       [] n = NameBadContent -> ContentBad
       [] n = NameWrong -> ContentGood1]

\* ------------------------------------------------------------------------
\* State
\* ------------------------------------------------------------------------

VARIABLES
  today,            \* the day datetime.now() falls on
  processed_files,  \* self.processed_files
  ledger_file,      \* processed_files.txt: [exists, text]
  download_dir,     \* staged files
  archive_dir,
  error_dir,        \* rejected files (error_report.log is error_log)
  error_log,        \* error_report.log: the entries appended since the
                    \* current (last) call started, oldest first
  log_lines,        \* error_report.log: the number of older entries; the
                    \* program never reads the log, so their text is not kept
  op,               \* the method running: "none", "process", "validate"
  pc,               \* its position
  state,            \* the routing state of the file of the current/last call
  outcome,          \* "none", "running", "returned", "raised"
  filename,         \* the call's argument
  archive_filename, \* the local archive_filename (= log_filename)
  errors,           \* the defect entries still to be logged
  exc,              \* the text of the exception being handled
  calls,            \* calls started so far
  pre,              \* the stores as they were when the call started
  obs,              \* what the current/last call did
  archived_ever,    \* filenames whose staged file was moved to the archive
  nfaults,          \* I/O operations that failed so far
  fn_input,         \* argument of a direct _validate_filename_pattern call
  fn_result,        \* its result: <<>> until it returns, then <<result>>
  fn_none,          \* the argument is None (fn_input is then not used)
  fn_raised,        \* the call raised instead of returning
  csv_input,        \* the rows of the file of a direct _validate_csv_content
                    \* call, as csv.reader yields them
  csv,              \* that call: position, locals and result; history
                    \* is the record_errors of every row scanned (the
                    \* field-count message for a row that is not checked)
  lg,               \* a direct _log_error call and error_report.log as text
  fl,               \* a get_file_list call on a ClinicalDataProcessor
  gui               \* the GUI shell: is_processing, status_queue, worker threads

vars ==
  <<today, processed_files, ledger_file, download_dir, archive_dir, error_dir,
    error_log, log_lines, op, pc, state, outcome, filename, archive_filename, errors,
    exc, calls, pre, obs, archived_ever, nfaults, fn_input, fn_result,
    fn_none, fn_raised, csv_input, csv, lg, fl, gui>>

\* the most calls of process_file and validate_file in one run of the model
MaxCalls == 2

\* the most I/O operations (open, retrieve, read, rename, write, append,
\* unlink) that fail in one run of the model
MaxFaults == 2

\* an I/O operation may fail
MayFail == nfaults < MaxFaults

NoObs ==
  [downloads |-> 0, name_checked |-> FALSE, validated |-> FALSE,
   faults |-> {}, log_calls |-> <<>>, moves |-> <<>>, unlinks |-> 0,
   ledger_writes |-> 0]

Snapshot ==
  [processed_files |-> processed_files, ledger_file |-> ledger_file,
   download_dir |-> download_dir, archive_dir |-> archive_dir,
   error_dir |-> error_dir, log_lines |-> log_lines + Len(error_log)]

\* the validator's stores and the router's position after construction
InitRouter ==
  /\ today = 1
  /\ processed_files = {}
  /\ ledger_file = [exists |-> FALSE, text |-> <<>>]
  /\ download_dir = EmptyDir
  /\ archive_dir = EmptyDir
  /\ error_dir = EmptyDir
  /\ error_log = <<>>
  /\ log_lines = 0
  /\ op = "none"
  /\ pc = "idle"
  /\ state = "None"
  /\ outcome = "none"
  /\ filename = <<>>
  /\ archive_filename = <<>>
  /\ errors = <<>>
  /\ exc = ""
  /\ calls = 0
  /\ pre = Snapshot
  /\ obs = NoObs
  /\ archived_ever = {}
  /\ nfaults = 0

\* no direct call of _validate_filename_pattern
NoFnCall ==
  /\ fn_input = <<>>
  /\ fn_result = <<>>
  /\ fn_none = FALSE
  /\ fn_raised = FALSE

\* _validate_csv_content not called
CsvIdle ==
  [pc |-> "idle", rows |-> <<>>, row_num |-> 0, seen_records |-> {},
   errors |-> <<>>, valid_records |-> 0, result |-> <<>>,
   history |-> <<>>, read_error |-> FALSE]

NoCsvCall ==
  /\ csv_input = <<>>
  /\ csv = CsvIdle

\* _log_error not called, error_report.log empty
LogIdle ==
  [pc |-> "idle", calls |-> 0, file |-> "", filename |-> "",
   error_details |-> "", answer |-> <<>>, source |-> "none", guid |-> "",
   log_entry |-> "",
   appended |-> FALSE, result |-> <<>>, raised |-> FALSE]

NoLogCall == lg = LogIdle

\* ClinicalDataProcessor.__init__ (self.ftp = None, self.connected = False),
\* get_file_list not called
ListIdle ==
  [ftp |-> FALSE, connected |-> FALSE, pc |-> "idle", files |-> <<>>,
   nlst_calls |-> 0, messages |-> <<>>, result |-> <<>>, failed |-> FALSE,
   disconnected |-> FALSE]

NoListCall == fl = ListIdle

\* ClinicalDataGUI.__init__: is_processing = False, an empty status_queue,
\* no worker thread
GuiIdle ==
  [is_processing |-> FALSE, status_queue |-> <<>>, workers |-> <<>>,
   started |-> 0, selected_file |-> <<>>]

NoGuiCall == gui = GuiIdle

Init ==
  /\ InitRouter
  /\ NoFnCall
  /\ NoCsvCall
  /\ NoLogCall
  /\ NoListCall
  /\ NoGuiCall

fnVars == <<fn_input, fn_result, fn_none, fn_raised, csv_input, csv, lg, fl, gui>>

dirVars == <<download_dir, archive_dir, error_dir>>

ledgerVars == <<processed_files, ledger_file>>

\* ------------------------------------------------------------------------
\* _log_error
\* ------------------------------------------------------------------------

\* the entry _log_error formats (timestamp and GUID left out)
LogEntry(file, error_details) == [file |-> Str(file), error |-> error_details]

\* error_report.log after _log_error(file, error_details); appended = FALSE
\* when fetching the GUID or appending raised, which _log_error swallows
_log_error(log, file, error_details, appended) ==
  IF appended THEN Append(log, LogEntry(file, error_details)) ELSE log

\* obs after a failed I/O operation
ObsFault(o, kind) == [o EXCEPT !.faults = @ \cup {kind}]

\* obs after a _log_error call
ObsLog(o, file, error_details, appended) ==
  [(IF appended THEN o ELSE ObsFault(o, "log"))
     EXCEPT !.log_calls = Append(@, LogEntry(file, error_details))]

\* a call of self._log_error(file, error_details) by the running method
CallLogError(file, error_details) ==
  \E appended \in (IF MayFail THEN {TRUE, FALSE} ELSE {TRUE}) :
    /\ error_log' = _log_error(error_log, file, error_details, appended)
    /\ obs' = ObsLog(obs, file, error_details, appended)
    /\ nfaults' = IF appended THEN nfaults ELSE nfaults + 1

\* ------------------------------------------------------------------------
\* The clock and the construction of a validator
\* ------------------------------------------------------------------------

\* datetime.now() read as day d: the clock never runs backwards, and the
\* days that passed since the last reading show only now.
ReadClock(d) ==
  /\ d \in today..MaxDay
  /\ today' = d

\* ClinicalDataValidator.__init__: a new validator, its ledger loaded from
\* the ledger file; no method has run on it yet
NewValidator ==
  /\ pc = "idle"
  /\ processed_files' = _load_processed_files(ledger_file)
  /\ op' = "none"
  /\ state' = "None"
  /\ outcome' = "none"
  /\ UNCHANGED <<today, ledger_file, dirVars, error_log, log_lines, pc,
                 filename, archive_filename, errors, exc, calls, pre, obs,
                 archived_ever, nfaults, fnVars>>

\* ------------------------------------------------------------------------
\* process_file(ftp, filename, status_queue), progress_callback = None
\* ------------------------------------------------------------------------

\* the call starts: what every entry records
Begin(f, o) ==
  /\ pc = "idle"
  /\ calls < MaxCalls
  /\ op' = o
  /\ filename' = f
  /\ calls' = calls + 1
  /\ pre' = Snapshot
  /\ obs' = NoObs
  /\ exc' = ""
  /\ errors' = <<>>
  /\ log_lines' = log_lines + Len(error_log)
  /\ error_log' = <<>>

\* the call ends by returning in routing state s
Return(s) ==
  /\ state' = s
  /\ outcome' = "returned"
  /\ pc' = "idle"

\* an exception e is raised inside the try block
Raise(e) ==
  /\ state' = "FailedFatal"
  /\ exc' = e
  /\ pc' = "except"

\* process_file without its ledger test: a ledgered file is routed again
ProcessSkipRoutesAgain(f) ==
  /\ Begin(f, "process")
  /\ f \in processed_files
  /\ \E d \in 1..MaxDay : ReadClock(d)
  /\ archive_filename' = CanonicalName(today')
  /\ state' = "Downloading"
  /\ outcome' = "running"
  /\ pc' = "download"
  /\ UNCHANGED <<ledgerVars, dirVars, archived_ever, nfaults,
                 fnVars>>

\* if filename in self.processed_files: return
ProcessSkip(f) ==
  /\ Begin(f, "process")
  /\ f \in processed_files
  /\ Return("Skipped")
  /\ UNCHANGED <<today, ledgerVars, dirVars, archive_filename,
                 archived_ever, nfaults, fnVars>>

\* otherwise: local_path, current_date, archive_filename, log_filename
ProcessStart(f) ==
  /\ Begin(f, "process")
  /\ f \notin processed_files
  /\ \E d \in 1..MaxDay : ReadClock(d)
  /\ archive_filename' = CanonicalName(today')
  /\ state' = "Downloading"
  /\ outcome' = "running"
  /\ pc' = "download"
  /\ UNCHANGED <<ledgerVars, dirVars, archived_ever, nfaults,
                 fnVars>>

\* a download that hands the staged file straight to content validation
DownloadSkipsFilenameCheck ==
  /\ op = "process" /\ pc = "download"
  /\ download_dir' = Put(download_dir, filename, remote[filename])
  /\ obs' = [obs EXCEPT !.downloads = @ + 1]
  /\ state' = "ContentCheck"
  /\ pc' = "validate"
  /\ UNCHANGED <<today, ledgerVars, archive_dir, error_dir, error_log, op,
                 outcome, filename, archive_filename, errors, exc, calls,
                 pre, archived_ever, nfaults, fnVars, log_lines>>

\* with open(local_path, 'wb') as f: ftp.retrbinary(...)
\* open() may raise before the file exists; retrbinary may raise after any
\* part of the file was written.
Download ==
  /\ op = "process" /\ pc = "download"
  /\ \/ /\ download_dir' = Put(download_dir, filename, remote[filename])
        /\ obs' = [obs EXCEPT !.downloads = @ + 1]
        /\ state' = "FilenameCheck"
        /\ pc' = "check_name"
        /\ UNCHANGED <<exc, nfaults>>
     \/ /\ MayFail
        /\ nfaults' = nfaults + 1
        /\ UNCHANGED download_dir
        /\ obs' = ObsFault(obs, "open")
        /\ Raise("open failed")
     \/ /\ MayFail
        /\ nfaults' = nfaults + 1
        /\ \E k \in 0..(Len(remote[filename]) - 1) :
             download_dir' =
               Put(download_dir, filename, SubSeq(remote[filename], 1, k))
        /\ obs' = [ObsFault(obs, "retr") EXCEPT !.downloads = @ + 1]
        /\ Raise("retr failed")
  /\ UNCHANGED <<today, ledgerVars, archive_dir, error_dir, error_log, op,
                 outcome, filename, archive_filename, errors, calls, pre,
                 archived_ever, fnVars,
                 log_lines>>

\* a filename check whose result is ignored
CheckFilenameIgnored ==
  /\ op = "process" /\ pc = "check_name"
  /\ obs' = [obs EXCEPT !.name_checked = TRUE]
  /\ state' = "ContentCheck"
  /\ pc' = "validate"
  /\ UNCHANGED <<today, ledgerVars, dirVars, error_log, op, outcome,
                 filename, archive_filename, errors, exc, calls, pre,
                 archived_ever, nfaults, fnVars, log_lines>>

\* if not self._validate_filename_pattern(filename, status_queue): ...
CheckFilename ==
  /\ op = "process" /\ pc = "check_name"
  /\ obs' = [obs EXCEPT !.name_checked = TRUE]
  /\ IF _validate_filename_pattern(filename)
       THEN state' = "ContentCheck" /\ pc' = "validate"
       ELSE state' = state /\ pc' = "name_move"
  /\ UNCHANGED <<today, ledgerVars, dirVars, error_log, op, outcome,
                 filename, archive_filename, errors, exc, calls, pre,
                 archived_ever, nfaults, fnVars,
                 log_lines>>

\* error_file = self.error_dir / filename; local_path.rename(error_file)
MoveToError(next_pc) ==
  /\ \/ /\ error_dir' = Put(error_dir, filename, download_dir[filename])
        /\ download_dir' = Remove(download_dir, filename)
        /\ obs' = [obs EXCEPT !.moves = Append(@, <<"error", filename>>)]
        /\ pc' = next_pc
        /\ UNCHANGED <<state, exc, nfaults>>
     \/ /\ MayFail
        /\ nfaults' = nfaults + 1
        /\ UNCHANGED <<error_dir, download_dir>>
        /\ obs' = ObsFault(obs, "rename")
        /\ Raise("rename failed")
  /\ UNCHANGED <<today, ledgerVars, archive_dir, error_log, op, outcome,
                 filename, archive_filename, errors, calls, pre,
                 archived_ever, fnVars,
                 log_lines>>

\* the filename check failed: the staged file goes to the error directory
NameRejectMove ==
  /\ op = "process" /\ pc = "name_move"
  /\ MoveToError("name_log")

\* self._log_error(log_filename, "Invalid filename pattern"); return
NameRejectLog ==
  /\ op = "process" /\ pc = "name_log"
  /\ CallLogError(archive_filename, "Invalid filename pattern")
  /\ Return("Rejected")
  /\ UNCHANGED <<today, ledgerVars, dirVars, op, filename, archive_filename,
                 errors, exc, calls, pre, archived_ever, fnVars,
                 log_lines>>

\* a content validation whose verdict is ignored
ValidateContentVerdictIgnored ==
  /\ op = "process" /\ pc = "validate"
  /\ \E report \in {_validate_csv_content(download_dir[filename])} :
       /\ errors' = report.errors
       /\ pc' = "archive_move"
  /\ obs' = [obs EXCEPT !.validated = TRUE]
  /\ UNCHANGED nfaults
  /\ UNCHANGED <<today, ledgerVars, dirVars, error_log, op, state, outcome,
                 filename, archive_filename, exc, calls, pre, archived_ever,
                 fnVars,
                 log_lines>>

\* is_valid, errors, record_count = self._validate_csv_content(local_path)
\* (_validate_csv_content turns every exception into a report)
ValidateContent ==
  /\ op = "process" /\ pc = "validate"
  /\ \/ /\ \E report \in {_validate_csv_content(download_dir[filename])} :
             /\ errors' = report.errors
             /\ pc' = IF report.is_valid THEN "archive_move"
                      ELSE "error_move"
        /\ obs' = [obs EXCEPT !.validated = TRUE]
        /\ UNCHANGED nfaults
     \/ /\ MayFail
        /\ nfaults' = nfaults + 1
        /\ errors' = ReadErrorReport.errors
        /\ pc' = "error_move"
        /\ obs' = [ObsFault(obs, "read") EXCEPT !.validated = TRUE]
  /\ UNCHANGED <<today, ledgerVars, dirVars, error_log, op, state, outcome,
                 filename, archive_filename, exc, calls, pre, archived_ever,
                 fnVars,
                 log_lines>>

\* an archive move that keeps the file's original name
ArchiveMoveKeepsName ==
  /\ op = "process" /\ pc = "archive_move"
  /\ archive_dir' = Put(archive_dir, filename, download_dir[filename])
  /\ download_dir' = Remove(download_dir, filename)
  /\ obs' = [obs EXCEPT !.moves = Append(@, <<"archive", filename>>)]
  /\ archived_ever' = archived_ever \cup {filename}
  /\ pc' = "save_ledger"
  /\ UNCHANGED <<state, exc, nfaults>>
  /\ UNCHANGED <<today, ledgerVars, error_dir, error_log, op, outcome,
                 filename, archive_filename, errors, calls, pre, fnVars,
                 log_lines>>

\* archive_path = self.archive_dir / archive_filename
\* local_path.rename(archive_path)
ArchiveMove ==
  /\ op = "process" /\ pc = "archive_move"
  /\ \/ /\ archive_dir' =
             Put(archive_dir, archive_filename, download_dir[filename])
        /\ download_dir' = Remove(download_dir, filename)
        /\ obs' = [obs EXCEPT
                     !.moves = Append(@, <<"archive", archive_filename>>)]
        /\ archived_ever' = archived_ever \cup {filename}
        /\ pc' = "save_ledger"
        /\ UNCHANGED <<state, exc, nfaults>>
     \/ /\ MayFail
        /\ nfaults' = nfaults + 1
        /\ UNCHANGED <<archive_dir, download_dir, archived_ever>>
        /\ obs' = ObsFault(obs, "rename")
        /\ Raise("rename failed")
  /\ UNCHANGED <<today, ledgerVars, error_dir, error_log, op, outcome,
                 filename, archive_filename, errors, calls, pre, fnVars,
                 log_lines>>

\* _save_processed_file(filename): self.processed_files.add(filename), then
\* write_text of the sorted set.  write_text may raise before the file is
\* opened (file as it was) or after it was truncated (file empty).
_save_processed_file ==
  /\ processed_files' = processed_files \cup {filename}
  /\ \/ /\ ledger_file' =
             [exists |-> TRUE, text |-> LedgerText(processed_files')]
        /\ obs' = [obs EXCEPT !.ledger_writes = @ + 1]
        /\ Return("Archived")
        /\ UNCHANGED <<exc, nfaults>>
     \/ /\ MayFail
        /\ nfaults' = nfaults + 1
        /\ \/ ledger_file' = ledger_file
           \/ ledger_file' = [exists |-> TRUE, text |-> <<>>]
        /\ obs' = ObsFault(obs, "write")
        /\ outcome' = outcome
        /\ Raise("write failed")

\* self._save_processed_file(filename), then the status messages
SaveLedger ==
  /\ op = "process" /\ pc = "save_ledger"
  /\ _save_processed_file
  /\ UNCHANGED <<today, dirVars, error_log, op, filename, archive_filename,
                 errors, calls, pre, archived_ever, fnVars,
                 log_lines>>

\* content validation failed: the staged file goes to the error directory
ErrorMove ==
  /\ op = "process" /\ pc = "error_move"
  /\ MoveToError("log_errors")

\* one audit entry for the whole file: the first defect only
LogErrorsOncePerFile ==
  /\ op = "process" /\ pc = "log_errors"
  /\ CallLogError(archive_filename, Head(errors))
  /\ errors' = <<>>
  /\ Return("Rejected")
  /\ UNCHANGED <<today, ledgerVars, dirVars, op, filename, archive_filename,
                 exc, calls, pre, archived_ever, fnVars, log_lines>>

\* for error in errors: self._log_error(log_filename, error)
\* one iteration; after the last one the call returns
LogErrors ==
  /\ op = "process" /\ pc = "log_errors"
  /\ CallLogError(archive_filename, Head(errors))
  /\ errors' = Tail(errors)
  /\ IF Tail(errors) = <<>>
       THEN Return("Rejected")
       ELSE UNCHANGED <<state, outcome, pc>>
  /\ UNCHANGED <<today, ledgerVars, dirVars, op, filename, archive_filename,
                 exc, calls, pre, archived_ever, fnVars,
                 log_lines>>

\* an exception handler that logs under the name of the file on the server
ExceptLogUnderOriginalName ==
  /\ op = "process" /\ pc = "except"
  /\ \E d \in 1..MaxDay : ReadClock(d)
  /\ CallLogError(filename, "Processing error: " \o exc)
  /\ pc' = "cleanup"
  /\ UNCHANGED <<ledgerVars, dirVars, op, state, outcome, filename,
                 archive_filename, errors, exc, calls, pre, archived_ever,
                 fnVars,
                 log_lines>>

\* except Exception as e: log_filename from the date now;
\* self._log_error(log_filename, f"Processing error: {e}")
ExceptLog ==
  /\ op = "process" /\ pc = "except"
  /\ \E d \in 1..MaxDay : ReadClock(d)
  /\ CallLogError(CanonicalName(today'), "Processing error: " \o exc)
  /\ pc' = "cleanup"
  /\ UNCHANGED <<ledgerVars, dirVars, op, state, outcome, filename,
                 archive_filename, errors, exc, calls, pre, archived_ever,
                 fnVars,
                 log_lines>>

\* an exception handler that leaves the staged file where it is
CleanupKeepsStagedFile ==
  /\ op = "process" /\ pc = "cleanup"
  /\ Return(state)
  /\ UNCHANGED <<download_dir, obs, nfaults>>
  /\ UNCHANGED <<today, ledgerVars, archive_dir, error_dir, error_log, op,
                 filename, archive_filename, errors, exc, calls, pre,
                 archived_ever, fnVars, log_lines>>

\* if local_path.exists(): local_path.unlink()
\* unlink() is outside any try: when it raises, process_file raises.
Cleanup ==
  /\ op = "process" /\ pc = "cleanup"
  /\ \/ /\ filename \notin DOMAIN download_dir
        /\ UNCHANGED <<download_dir, obs, nfaults>>
        /\ Return(state)
     \/ /\ filename \in DOMAIN download_dir
        /\ download_dir' = Remove(download_dir, filename)
        /\ obs' = [obs EXCEPT !.unlinks = @ + 1]
        /\ UNCHANGED nfaults
        /\ Return(state)
     \/ /\ filename \in DOMAIN download_dir
        /\ MayFail
        /\ nfaults' = nfaults + 1
        /\ UNCHANGED download_dir
        /\ obs' = [ObsFault(obs, "unlink") EXCEPT !.unlinks = @ + 1]
        /\ state' = state
        /\ outcome' = "raised"
        /\ pc' = "idle"
  /\ UNCHANGED <<today, ledgerVars, archive_dir, error_dir, error_log, op,
                 filename, archive_filename, errors, exc, calls, pre,
                 archived_ever, fnVars,
                 log_lines>>

process_file ==
  \/ \E f \in RemoteNames : ProcessSkip(f)
  \/ \E f \in RemoteNames : ProcessStart(f)
  \/ Download
  \/ CheckFilename
  \/ NameRejectMove
  \/ NameRejectLog
  \/ ValidateContent
  \/ ArchiveMove
  \/ SaveLedger
  \/ ErrorMove
  \/ LogErrors
  \/ ExceptLog
  \/ Cleanup

\* ------------------------------------------------------------------------
\* validate_file(ftp, filename, status_queue), progress_callback = None
\* ------------------------------------------------------------------------

\* if filename in self.processed_files: return
ValidateSkip(f) ==
  /\ Begin(f, "validate")
  /\ f \in processed_files
  /\ Return("Skipped")
  /\ UNCHANGED <<today, ledgerVars, dirVars, archive_filename,
                 archived_ever, nfaults, fnVars>>

\* otherwise: temp_path, today_date, log_filename
ValidateStart(f) ==
  /\ Begin(f, "validate")
  /\ f \notin processed_files
  /\ \E d \in 1..MaxDay : ReadClock(d)
  /\ archive_filename' = CanonicalName(today')
  /\ state' = "Validating"
  /\ outcome' = "running"
  /\ pc' = "download"
  /\ UNCHANGED <<ledgerVars, dirVars, archived_ever, nfaults,
                 fnVars>>

\* with open(temp_path, 'wb') as f: ftp.retrbinary(...)
ValidateDownload ==
  /\ op = "validate" /\ pc = "download"
  /\ \/ /\ download_dir' =
             Put(download_dir, TempName(filename), remote[filename])
        /\ obs' = [obs EXCEPT !.downloads = @ + 1]
        /\ pc' = "check"
        /\ UNCHANGED <<state, exc, nfaults>>
     \/ /\ MayFail
        /\ nfaults' = nfaults + 1
        /\ UNCHANGED download_dir
        /\ obs' = ObsFault(obs, "open")
        /\ Raise("open failed")
     \/ /\ MayFail
        /\ nfaults' = nfaults + 1
        /\ \E k \in 0..(Len(remote[filename]) - 1) :
             download_dir' = Put(download_dir, TempName(filename),
                                 SubSeq(remote[filename], 1, k))
        /\ obs' = [ObsFault(obs, "retr") EXCEPT !.downloads = @ + 1]
        /\ Raise("retr failed")
  /\ UNCHANGED <<today, ledgerVars, archive_dir, error_dir, error_log, op,
                 outcome, filename, archive_filename, errors, calls, pre,
                 archived_ever, fnVars,
                 log_lines>>

\* if self._validate_filename_pattern(filename): the content is validated
\* and its errors are the ones to log; else the one error to log is
\* "Invalid filename pattern"
ValidateCheck ==
  /\ op = "validate" /\ pc = "check"
  /\ \/ /\ ~_validate_filename_pattern(filename)
        /\ errors' = <<"Invalid filename pattern">>
        /\ obs' = [obs EXCEPT !.name_checked = TRUE]
        /\ state' = "Invalid"
        /\ pc' = "log_errors"
        /\ UNCHANGED nfaults
     \/ /\ _validate_filename_pattern(filename)
        /\ \E report \in
                {_validate_csv_content(download_dir[TempName(filename)])} :
             /\ errors' = report.errors
             /\ state' = IF report.is_valid THEN "Valid" ELSE "Invalid"
             /\ pc' = IF report.is_valid THEN "unlink" ELSE "log_errors"
        /\ obs' = [obs EXCEPT !.name_checked = TRUE, !.validated = TRUE]
        /\ UNCHANGED nfaults
     \/ /\ _validate_filename_pattern(filename)
        /\ MayFail
        /\ nfaults' = nfaults + 1
        /\ errors' = ReadErrorReport.errors
        /\ state' = "Invalid"
        /\ pc' = "log_errors"
        /\ obs' = [ObsFault(obs, "read") EXCEPT !.name_checked = TRUE,
                                                !.validated = TRUE]
  /\ UNCHANGED <<today, ledgerVars, dirVars, error_log, op, outcome,
                 filename, archive_filename, exc, calls, pre, archived_ever,
                 fnVars,
                 log_lines>>

\* self._log_error(log_filename, error), one call
ValidateLog ==
  /\ op = "validate" /\ pc = "log_errors"
  /\ CallLogError(archive_filename, Head(errors))
  /\ errors' = Tail(errors)
  /\ pc' = IF Tail(errors) = <<>> THEN "unlink" ELSE pc
  /\ UNCHANGED <<today, ledgerVars, dirVars, op, state, outcome, filename,
                 archive_filename, exc, calls, pre, archived_ever, fnVars,
                 log_lines>>

\* a validate_file that returns without removing its staged copy
ValidateUnlinkForgotten ==
  /\ op = "validate" /\ pc = "unlink"
  /\ Return(state)
  /\ UNCHANGED <<download_dir, obs, exc, nfaults>>
  /\ UNCHANGED <<today, ledgerVars, archive_dir, error_dir, error_log, op,
                 filename, archive_filename, errors, calls, pre,
                 archived_ever, fnVars,
                 log_lines>>

\* temp_path.unlink(), the last statement of the try block
ValidateUnlink ==
  /\ op = "validate" /\ pc = "unlink"
  /\ \/ /\ download_dir' = Remove(download_dir, TempName(filename))
        /\ obs' = [obs EXCEPT !.unlinks = @ + 1]
        /\ Return(state)
        /\ UNCHANGED <<exc, nfaults>>
     \/ /\ MayFail
        /\ nfaults' = nfaults + 1
        /\ UNCHANGED <<download_dir, outcome>>
        /\ obs' = [ObsFault(obs, "unlink") EXCEPT !.unlinks = @ + 1]
        /\ Raise("unlink failed")
  /\ UNCHANGED <<today, ledgerVars, archive_dir, error_dir, error_log, op,
                 filename, archive_filename, errors, calls, pre,
                 archived_ever, fnVars,
                 log_lines>>

\* except Exception as e: log_filename from the date now;
\* self._log_error(log_filename, f"Validation error: {e}")
ValidateExceptLog ==
  /\ op = "validate" /\ pc = "except"
  /\ \E d \in 1..MaxDay : ReadClock(d)
  /\ CallLogError(CanonicalName(today'), "Validation error: " \o exc)
  /\ pc' = "cleanup"
  /\ UNCHANGED <<ledgerVars, dirVars, op, state, outcome, filename,
                 archive_filename, errors, exc, calls, pre, archived_ever,
                 fnVars,
                 log_lines>>

\* if temp_path.exists(): temp_path.unlink()
\* unlink() is outside any try: when it raises, validate_file raises.
ValidateCleanup ==
  /\ op = "validate" /\ pc = "cleanup"
  /\ \/ /\ TempName(filename) \notin DOMAIN download_dir
        /\ UNCHANGED <<download_dir, obs, nfaults>>
        /\ Return(state)
     \/ /\ TempName(filename) \in DOMAIN download_dir
        /\ download_dir' = Remove(download_dir, TempName(filename))
        /\ obs' = [obs EXCEPT !.unlinks = @ + 1]
        /\ UNCHANGED nfaults
        /\ Return(state)
     \/ /\ TempName(filename) \in DOMAIN download_dir
        /\ MayFail
        /\ nfaults' = nfaults + 1
        /\ UNCHANGED download_dir
        /\ obs' = [ObsFault(obs, "unlink") EXCEPT !.unlinks = @ + 1]
        /\ state' = state
        /\ outcome' = "raised"
        /\ pc' = "idle"
  /\ UNCHANGED <<today, ledgerVars, archive_dir, error_dir, error_log, op,
                 filename, archive_filename, errors, exc, calls, pre,
                 archived_ever, fnVars,
                 log_lines>>

validate_file ==
  \/ \E f \in RemoteNames : ValidateSkip(f)
  \/ \E f \in RemoteNames : ValidateStart(f)
  \/ ValidateDownload
  \/ ValidateCheck
  \/ ValidateLog
  \/ ValidateUnlink
  \/ ValidateExceptLog
  \/ ValidateCleanup

Next ==
  \/ NewValidator
  \/ process_file
  \/ validate_file

Spec == Init /\ [][Next]_vars

\* A call that has started keeps running: process_file and validate_file
\* are straight-line code with one bounded loop, executed by a worker
\* thread that nothing suspends.
CallStep == pc # "idle" /\ (process_file \/ validate_file)

FairSpec == Spec /\ WF_vars(CallStep)

\* ------------------------------------------------------------------------
\* _validate_filename_pattern on its own: one call per input
\* ------------------------------------------------------------------------

Replace(s, i, c) == [s EXCEPT ![i] = c]

Delete(s, i) == SubSeq(s, 1, i - 1) \o SubSeq(s, i + 1, Len(s))

Insert(s, i, c) == SubSeq(s, 1, i - 1) \o <<c>> \o SubSeq(s, i, Len(s))

\* names of the right shape, in the case variants of test_filename_validation
ShapedNames ==
  {NameGood1, NameGood2, NameBadContent, Prefix \o Stamp1 \o ExtUpper}

EditChars == {"x", "7", "\n", " "}

\* the shaped names, every one-character edit of them, and the invalid
\* names of test_filename_validation
FilenameInputs ==
  ShapedNames
  \cup {Replace(n, i, c) : n \in ShapedNames, i \in 1..Len(NameGood1),
                           c \in EditChars}
  \cup {Delete(n, i) : n \in ShapedNames, i \in 1..Len(NameGood1)}
  \cup {Insert(n, i, c) : n \in ShapedNames, i \in 1..(Len(NameGood1) + 1),
                          c \in EditChars}
  \cup {<<>>, NameWrong, Prefix \o SubSeq(Stamp1, 1, 4) \o ExtLower,
        Prefix \o Stamp1 \o <<".", "t", "x", "t">>,
        <<"t", "e", "s", "t">> \o ExtLower}

InitFilename ==
  /\ InitRouter
  /\ NoCsvCall
  /\ fn_result = <<>>
  /\ fn_raised = FALSE
  /\ \/ fn_none = FALSE /\ fn_input \in FilenameInputs
     \/ fn_none = TRUE /\ fn_input = <<>>
  /\ NoLogCall
  /\ NoListCall
  /\ NoGuiCall

\* result = validator._validate_filename_pattern(fn_input)
\* re.match(pattern, None, ...) raises TypeError before anything else
CallValidateFilenamePattern ==
  /\ fn_result = <<>> /\ ~fn_raised
  /\ IF fn_none
       THEN fn_raised' = TRUE /\ fn_result' = fn_result
       ELSE /\ fn_result' = <<_validate_filename_pattern(fn_input)>>
            /\ fn_raised' = fn_raised
  /\ UNCHANGED <<today, ledgerVars, dirVars, error_log, log_lines, op, pc,
                 state, outcome, filename, archive_filename, errors, exc,
                 calls, pre, obs, archived_ever, nfaults, fn_input, fn_none,
                 csv_input, csv, lg, fl, gui>>

NextFilename == CallValidateFilenamePattern

SpecFilename == InitFilename /\ [][NextFilename]_vars

\* ------------------------------------------------------------------------
\* _validate_csv_content on its own: one call per file, statement by
\* statement, with a read error possible at any point
\* ------------------------------------------------------------------------

MaxRows == 2

ReversedDates == [RowA2 EXCEPT ![5] = Date0131, ![6] = Date0101]

\* outcome in lower case
RowLowerOutcome ==
  [RowA EXCEPT ![7] = <<"i", "m", "p", "r", "o", "v", "e", "d">>]

\* outcome NoChange
RowNoChange ==
  [RowA2 EXCEPT ![7] = <<"N", "o", "C", "h", "a", "n", "g", "e">>]

\* outcome No Change
RowNoChangeSpaced ==
  [RowA2 EXCEPT ![7] = <<"N", "o", " ", "C", "h", "a", "n", "g", "e">>]

\* Analyst empty
RowMissing == [RowA2 EXCEPT ![9] = <<>>]

RowLong == Append(RowA2, NoneText)

\* Analyst is one space
RowBlankAnalyst == [RowA2 EXCEPT ![9] = <<" ">>]

\* PatientID P001_T001, TrialCode T001
RowUnderscore1 == [RowA EXCEPT ![1] = P001 \o <<"_">> \o T001]

\* PatientID P001, TrialCode T001_T001
RowUnderscore2 == [RowA EXCEPT ![2] = T001 \o <<"_">> \o T001]

\* Dosage abc
RowDoseText == [RowA2 EXCEPT ![4] = <<"a", "b", "c">>]

\* Dosage 0
RowDoseZero == [RowA2 EXCEPT ![4] = <<"0">>]

\* Dosage 1.5
RowDoseDecimal == [RowA2 EXCEPT ![4] = <<"1", ".", "5">>]

\* Dosage 7 between two spaces
RowDoseSpaced == [RowA2 EXCEPT ![4] = <<" ", "7", " ">>]

\* Dosage 1_0
RowDoseUnderscore == [RowA2 EXCEPT ![4] = <<"1", "_", "0">>]

DataRows ==
  {RowA, RowA2, RowB, ReversedDates, RowLowerOutcome, RowNoChange,
   RowNoChangeSpaced, RowMissing, RowBlankAnalyst, RowShort, RowLong,
   RowUnderscore1, RowUnderscore2, RowDoseText, RowDoseZero, RowDoseDecimal,
   RowDoseSpaced, RowDoseUnderscore}

\* the first two names exchanged
HeaderSwapped ==
  [expected_fields EXCEPT ![1] = expected_fields[2], ![2] = expected_fields[1]]

\* patientID
HeaderLowerCase == [expected_fields EXCEPT ![1][1] = "p"]

\* Wrong,Header
HeaderWrong ==
  <<<<"W", "r", "o", "n", "g">>, <<"H", "e", "a", "d", "e", "r">>>>

HeaderLong == Append(expected_fields, NoneText)

Headers ==
  {expected_fields, HeaderSwapped, HeaderLowerCase, HeaderWrong, HeaderLong}

RowSeqs == UNION {[1..n -> DataRows] : n \in 0..MaxRows}

\* the empty file and every header followed by up to MaxRows data rows
CsvInputs == {<<>>} \cup {<<h>> \o rows : h \in Headers, rows \in RowSeqs}

routerVars ==
  <<today, ledgerVars, dirVars, error_log, log_lines, op, pc, state, outcome,
    filename, archive_filename, errors, exc, calls, pre, obs, archived_ever,
    nfaults>>

InitCsv ==
  /\ InitRouter
  /\ NoFnCall
  /\ csv_input \in CsvInputs
  /\ csv = CsvIdle
  /\ NoLogCall
  /\ NoListCall
  /\ NoGuiCall

CsvFrame == UNCHANGED <<routerVars, fn_input, fn_result, fn_none, fn_raised,
                        csv_input, lg, fl, gui>>

\* errors = [], valid_records = [], seen_records = set(); open(); reader
CsvBegin ==
  /\ csv.pc = "idle"
  /\ csv' = [CsvIdle EXCEPT !.pc = "header", !.rows = csv_input]
  /\ CsvFrame

\* return is_valid, errors, record_count
CsvReturnReport(is_valid, errs, count) ==
  csv' = [csv EXCEPT !.pc = "done",
                     !.result = <<[is_valid |-> is_valid, errors |-> errs,
                                   count |-> count]>>]

\* a header check that notes the mismatch and reads on
CsvHeaderReadsOn ==
  /\ csv.pc = "header"
  /\ IF csv.rows = <<>>
       THEN CsvReturnReport(FALSE, Append(csv.errors, "File is empty"), 0)
     ELSE csv' = [csv EXCEPT
                    !.pc = "rows", !.rows = Tail(@), !.row_num = 1,
                    !.errors = IF Head(csv.rows) # expected_fields
                                 THEN Append(@, "Invalid header structure")
                                 ELSE @]
  /\ CsvFrame

\* a header step that does not count the header as a row
CsvHeaderNotCounted ==
  /\ csv.pc = "header"
  /\ IF csv.rows = <<>>
       THEN CsvReturnReport(FALSE, Append(csv.errors, "File is empty"), 0)
     ELSE IF Head(csv.rows) # expected_fields
       THEN CsvReturnReport(FALSE,
                            Append(csv.errors, "Invalid header structure"), 0)
     ELSE csv' = [csv EXCEPT !.pc = "rows", !.rows = Tail(@), !.row_num = 0]
  /\ CsvFrame

\* header = next(reader); if header != expected_fields: ...; row_num = 1
CsvHeader ==
  /\ csv.pc = "header"
  /\ IF csv.rows = <<>>
       THEN CsvReturnReport(FALSE, Append(csv.errors, "File is empty"), 0)
     ELSE IF Head(csv.rows) # expected_fields
       THEN CsvReturnReport(FALSE,
                            Append(csv.errors, "Invalid header structure"), 0)
     ELSE csv' = [csv EXCEPT !.pc = "rows", !.rows = Tail(@), !.row_num = 1]
  /\ CsvFrame

\* a row step that files one entry per message instead of one per row
CsvRowEntryPerMessage ==
  /\ csv.pc = "rows" /\ csv.rows # <<>>
  /\ LET row == Head(csv.rows)
         n   == csv.row_num + 1
     IN  \E msgs \in {IF Len(row) # FieldCount
                        THEN <<"Expected 9 fields, got "
                               \o ToString(Len(row))>>
                        ELSE record_errors(row, csv.seen_records)} :
           csv' = [csv EXCEPT
                     !.rows = Tail(@), !.row_num = n,
                     !.history = Append(@, msgs),
                     !.seen_records =
                       IF Len(row) # FieldCount THEN @
                       ELSE @ \cup {RecordKey(row)},
                     !.errors =
                       @ \o [i \in 1..Len(msgs) |->
                               "Row " \o ToString(n) \o ": " \o msgs[i]],
                     !.valid_records = IF msgs # <<>> THEN @ ELSE @ + 1]
  /\ CsvFrame

\* a row step that records the key of a row of the wrong length too
CsvRowKeyOfEveryRow ==
  /\ csv.pc = "rows" /\ csv.rows # <<>>
  /\ LET row == Head(csv.rows)
         n   == csv.row_num + 1
     IN  IF Len(row) # FieldCount
           THEN csv' = [csv EXCEPT
                          !.rows = Tail(@), !.row_num = n,
                          !.history =
                            Append(@, <<"Expected 9 fields, got "
                                        \o ToString(Len(row))>>),
                          !.seen_records = @ \cup {RecordKey(row)},
                          !.errors =
                            Append(@, "Row " \o ToString(n)
                                      \o ": Expected 9 fields, got "
                                      \o ToString(Len(row)))]
         ELSE \E msgs \in {record_errors(row, csv.seen_records)} :
                csv' = [csv EXCEPT
                          !.rows = Tail(@), !.row_num = n,
                          !.history = Append(@, msgs),
                          !.seen_records = @ \cup {RecordKey(row)},
                          !.errors =
                            IF msgs # <<>>
                              THEN Append(@, "Row " \o ToString(n) \o ": "
                                             \o JoinComma(msgs))
                              ELSE @,
                          !.valid_records =
                            IF msgs # <<>> THEN @ ELSE @ + 1]
  /\ CsvFrame

\* one iteration of: for row in reader
CsvRow ==
  /\ csv.pc = "rows" /\ csv.rows # <<>>
  /\ LET row == Head(csv.rows)
         n   == csv.row_num + 1
     IN  IF Len(row) # FieldCount
           THEN csv' = [csv EXCEPT
                          !.rows = Tail(@), !.row_num = n,
                          !.history =
                            Append(@, <<"Expected 9 fields, got "
                                        \o ToString(Len(row))>>),
                          !.errors =
                            Append(@, "Row " \o ToString(n)
                                      \o ": Expected 9 fields, got "
                                      \o ToString(Len(row)))]
         ELSE \E msgs \in {record_errors(row, csv.seen_records)} :
                csv' = [csv EXCEPT
                          !.rows = Tail(@), !.row_num = n,
                          !.history = Append(@, msgs),
                          !.seen_records = @ \cup {RecordKey(row)},
                          !.errors =
                            IF msgs # <<>>
                              THEN Append(@, "Row " \o ToString(n) \o ": "
                                             \o JoinComma(msgs))
                              ELSE @,
                          !.valid_records =
                            IF msgs # <<>> THEN @ ELSE @ + 1]
  /\ CsvFrame

\* a return that reports the rows scanned as the record count
CsvReturnCountsAllRows ==
  /\ csv.pc = "rows" /\ csv.rows = <<>>
  /\ IF csv.errors # <<>>
       THEN CsvReturnReport(FALSE, csv.errors, csv.row_num - 1)
       ELSE CsvReturnReport(TRUE, <<>>, csv.row_num - 1)
  /\ CsvFrame

\* if errors: return False, errors, len(valid_records)
\* return True, [], len(valid_records)
CsvReturn ==
  /\ csv.pc = "rows" /\ csv.rows = <<>>
  /\ IF csv.errors # <<>>
       THEN CsvReturnReport(FALSE, csv.errors, csv.valid_records)
       ELSE CsvReturnReport(TRUE, <<>>, csv.valid_records)
  /\ CsvFrame

\* an except clause that adds the read error to what was found so far
CsvReadErrorKeepsDefects ==
  /\ csv.pc \in {"header", "rows"}
  /\ csv' = [csv EXCEPT
               !.pc = "done", !.read_error = TRUE,
               !.result = <<[is_valid |-> FALSE,
                             errors |-> csv.errors \o ReadErrorReport.errors,
                             count |-> csv.valid_records]>>]
  /\ CsvFrame

\* except Exception as e: return False, [f"File read error: {str(e)}"], 0
\* open(), the decoding of a line or a read raised
CsvReadError ==
  /\ csv.pc \in {"header", "rows"}
  /\ csv' = [csv EXCEPT !.pc = "done", !.read_error = TRUE,
                        !.result = <<ReadErrorReport>>]
  /\ CsvFrame

NextCsv == CsvBegin \/ CsvHeader \/ CsvRow \/ CsvReturn \/ CsvReadError

SpecCsv == InitCsv /\ [][NextCsv]_vars

\* ------------------------------------------------------------------------
\* UUIDGenerator.get_guid_from_api and _log_error, call by call
\* ------------------------------------------------------------------------

\* the most direct calls of _log_error in one run of the model
MaxLogCalls == 2

\* str(uuid.uuid4())
LocalUuids ==
  {"12345678-1234-5678-1234-567812345678",
   "0f8fad5b-d9cb-469f-a165-70867728950e"}

\* what requests.get(...) does: it raises exc, or it returns a response
\* with a status code whose json() raises ValueError (type "malformed") or
\* yields a list of items, a dict (uuid = <<value>> when it has the key
\* 'uuid') or something else
ApiAnswer(raises, status_code, type, items, uuid) ==
  [exc |-> raises, status |-> status_code, type |-> type, items |-> items,
   uuid |-> uuid]

ApiUuid == "bbe77b81-5a21-426f-b2bf-99df83c163e1"

\* mock_response.json.return_value = ["test-uuid-from-api-1234"]
ApiShortToken == "test-uuid-from-api-1234"

ApiAnswers ==
  {ApiAnswer("", 200, "list", <<ApiUuid>>, <<>>),
   ApiAnswer("", 200, "list", <<ApiShortToken>>, <<>>),
   ApiAnswer("", 200, "list", <<>>, <<>>),
   ApiAnswer("", 200, "dict", <<>>, <<ApiUuid>>),
   ApiAnswer("", 200, "dict", <<>>, <<>>),
   ApiAnswer("", 200, "other", <<>>, <<>>),
   ApiAnswer("", 200, "malformed", <<>>, <<>>),
   ApiAnswer("", 503, "other", <<>>, <<>>),
   ApiAnswer("ConnectionError", 0, "other", <<>>, <<>>),
   ApiAnswer("Timeout", 0, "other", <<>>, <<>>),
   ApiAnswer("RuntimeError", 0, "other", <<>>, <<>>)}

\* the subclasses of requests.RequestException among the errors above
RequestExceptions == {"ConnectionError", "Timeout"}

\* a generator that never uses what the source sent
GuidAlwaysLocal(answer, local) ==
  [guid |-> local, source |-> "local", exc |-> ""]

\* get_guid_from_api() when requests.get answers with answer and
\* uuid.uuid4() would give local: the value returned, where it came from,
\* and the exception that leaves the method (none: "")
get_guid_from_api(answer, local) ==
  IF answer.exc # ""
    THEN IF answer.exc \in RequestExceptions
           THEN [guid |-> local, source |-> "local", exc |-> ""]
           ELSE [guid |-> "", source |-> "none", exc |-> answer.exc]
  ELSE IF answer.status = 200
    THEN IF answer.type = "malformed"
           THEN [guid |-> local, source |-> "local", exc |-> ""]
         ELSE IF answer.type = "list" /\ Len(answer.items) > 0
           THEN [guid |-> answer.items[1], source |-> "api", exc |-> ""]
         ELSE IF answer.type = "dict" /\ answer.uuid # <<>>
           THEN [guid |-> answer.uuid[1], source |-> "api", exc |-> ""]
         ELSE [guid |-> local, source |-> "local", exc |-> ""]
  ELSE [guid |-> local, source |-> "local", exc |-> ""]

\* datetime.now().strftime("%Y-%m-%dT%H:%M:%S")
Timestamp == "2024-01-01T00:00:00"

\* f"[{timestamp}] GUID: {guid} | File: {filename} | Error: {error_details}\n"
FormatLogEntry(timestamp, guid, file, error_details) ==
  "[" \o timestamp \o "] GUID: " \o guid \o " | File: " \o file
  \o " | Error: " \o error_details \o "\n"

\* the filename arguments of the calls
LogFilenames ==
  {"CLINICALDATA_20240101.csv", "test.csv"}

\* the error_details arguments: the message of the filename check, a
\* defect entry with two messages, and a defect entry that quotes a CSV
\* field with a line break inside (a quoted field, as csv.reader yields it)
LogDetails ==
  {"Invalid filename pattern",
   "Row 3: Invalid dosage: -50, Duplicate record",
   "Row 2: Non-numeric dosage: 1\n0"}

\* str(e) of the errors open(..., "a") and f.write raise
AppendErrors == {"[Errno 13] Permission denied: 'error_report.log'"}

LogFrame == UNCHANGED <<routerVars, fn_input, fn_result, fn_none, fn_raised,
                        csv_input, csv, fl, gui>>

\* an except clause that lets the error go on to the caller
LogExceptPropagates(l, e) ==
  lg' = [l EXCEPT !.pc = "done", !.raised = TRUE]

\* except Exception as e: return f"Logging failed: {e}\n"
\* l: the locals when e was raised
LogExcept(l, e) ==
  lg' = [l EXCEPT !.pc = "done",
                  !.result = <<"Logging failed: " \o e \o "\n">>]

\* validator._log_error(filename, error_details) is called
LogBegin ==
  /\ lg.pc \in {"idle", "done"}
  /\ lg.calls < MaxLogCalls
  /\ \E file \in LogFilenames, error_details \in LogDetails :
       lg' = [LogIdle EXCEPT !.pc = "guid", !.calls = lg.calls + 1,
                             !.file = lg.file, !.filename = file,
                             !.error_details = error_details]
  /\ LogFrame

\* guid = self.uuid_generator.get_guid_from_api(); timestamp; log_entry
LogGetGuid ==
  /\ lg.pc = "guid"
  /\ \E answer \in ApiAnswers, local \in LocalUuids :
       \E r \in {get_guid_from_api(answer, local)} :
         IF r.exc # ""
           THEN LogExcept([lg EXCEPT !.answer = <<answer>>], r.exc)
           ELSE lg' = [lg EXCEPT
                         !.pc = "append", !.answer = <<answer>>,
                         !.guid = r.guid,
                         !.source = r.source,
                         !.log_entry =
                           FormatLogEntry(Timestamp, r.guid, lg.filename,
                                          lg.error_details)]
  /\ LogFrame

\* with open(error_log_path, "a", ...) as f: f.write(log_entry)
\* return log_entry
LogAppend ==
  /\ lg.pc = "append"
  /\ \/ lg' = [lg EXCEPT !.pc = "done", !.appended = TRUE,
                         !.file = @ \o lg.log_entry,
                         !.result = <<lg.log_entry>>]
     \/ \E e \in AppendErrors : LogExcept(lg, e)
  /\ LogFrame

InitLog ==
  /\ InitRouter
  /\ NoFnCall
  /\ NoCsvCall
  /\ NoLogCall
  /\ NoListCall
  /\ NoGuiCall

NextLog == LogBegin \/ LogGetGuid \/ LogAppend

SpecLog == InitLog /\ [][NextLog]_vars

\* ------------------------------------------------------------------------
\* ClinicalDataProcessor: connect, disconnect, get_file_list
\* ------------------------------------------------------------------------

\* the most names in one listing of the server
MaxListed == 3

\* str.upper() of one character (ASCII letters)
Upper(c) ==
  IF \E i \in 1..Len(LowerCase) : LowerCase[i] = c
    THEN UpperCase[CHOOSE i \in 1..Len(LowerCase) : LowerCase[i] = c]
    ELSE c

\* f.upper()
UpperStr(f) == [i \in 1..Len(f) |-> Upper(f[i])]

\* f.endswith(suffix)
EndsWith(f, suffix) ==
  /\ Len(f) >= Len(suffix)
  /\ SubSeq(f, Len(f) - Len(suffix) + 1, Len(f)) = suffix

\* a filter that compares the extension as it is written
CsvFilesCaseSensitive(files) ==
  SelectSeq(files, LAMBDA f : EndsWith(f, <<".", "c", "s", "v">>))

\* [f for f in files if f.upper().endswith('.CSV')]
csv_files(files) ==
  SelectSeq(files,
            LAMBDA f : EndsWith(UpperStr(f), <<".", "C", "S", "V">>))

\* list with x put in before the first element greater than x
RECURSIVE InsertSorted(_, _)
InsertSorted(list, x) ==
  IF list = <<>> THEN <<x>>
  ELSE IF LexLess(x, Head(list)) THEN <<x>> \o list
  ELSE <<Head(list)>> \o InsertSorted(Tail(list), x)

\* sorted(list)
RECURSIVE SortedList(_)
SortedList(list) ==
  IF list = <<>> THEN <<>>
  ELSE InsertSorted(SortedList(SubSeq(list, 1, Len(list) - 1)),
                    list[Len(list)])

\* the names a server may list
ListedNames ==
  {NameGood1,
   <<"r", "e", "p", "o", "r", "t", ".", "p", "d", "f">>,
   <<"d", "a", "t", "a", ".", "C", "S", "V">>,
   <<"a", ".", "C", "s", "v">>,
   <<"c", "s", "v">>,
   <<"b", ".", "c", "s", "v", ".", "b", "a", "k">>}

\* what self.ftp.nlst() may return
Listings == UNION {[1..n -> ListedNames] : n \in 0..MaxListed}

ListFrame == UNCHANGED <<routerVars, fn_input, fn_result, fn_none, fn_raised,
                         csv_input, csv, lg, gui>>

\* (the result of an earlier get_file_list call is dropped from the state)
\* connect(): the old connection is quit; ftplib.FTP(...) raises (self.ftp
\* stays what it was), or login raises, or the connection stands
ProcConnect ==
  /\ fl.pc # "nlst"
  /\ \/ fl' = [ListIdle EXCEPT !.ftp = fl.ftp, !.connected = FALSE]
     \/ fl' = [ListIdle EXCEPT !.ftp = TRUE, !.connected = FALSE]
     \/ fl' = [ListIdle EXCEPT !.ftp = TRUE, !.connected = TRUE]
  /\ ListFrame

\* disconnect(): if self.ftp: quit() and connected = False, or quit() raises
\* and the except clause passes; disconnected records that disconnect() was
\* the last change of the connection
ProcDisconnect ==
  /\ fl.pc # "nlst"
  /\ fl.ftp
  /\ \/ fl' = [ListIdle EXCEPT !.ftp = TRUE, !.connected = FALSE,
                               !.disconnected = TRUE]
     \/ fl' = [ListIdle EXCEPT !.ftp = TRUE, !.connected = fl.connected,
                               !.disconnected = TRUE]
  /\ ListFrame

\* return value and end of get_file_list
ListReturn(l, message, list) ==
  fl' = [l EXCEPT !.pc = "done", !.messages = Append(@, message),
                  !.result = <<list>>]

\* get_file_list(status_queue) is called: the connection test
GetFileListBegin ==
  /\ fl.pc # "nlst"
  /\ LET l == [ListIdle EXCEPT !.ftp = fl.ftp, !.connected = fl.connected,
                               !.disconnected = fl.disconnected]
     IN  IF ~l.ftp \/ ~l.connected
           THEN ListReturn(l, "Not connected to FTP server", <<>>)
           ELSE fl' = [l EXCEPT !.pc = "nlst"]
  /\ ListFrame

\* files = self.ftp.nlst() and what follows; except Exception
GetFileListNlst ==
  /\ fl.pc = "nlst"
  /\ \/ \E files \in Listings :
          \E found \in {csv_files(files)} :
            ListReturn([fl EXCEPT !.nlst_calls = @ + 1, !.files = files],
                       IF found # <<>>
                         THEN "Found " \o ToString(Len(found))
                              \o " CSV files"
                         ELSE "No CSV files found",
                       SortedList(found))
     \/ ListReturn([fl EXCEPT !.nlst_calls = @ + 1, !.failed = TRUE],
                   "Failed to retrieve file list: 550 No files found",
                   <<>>)
  /\ ListFrame

InitList ==
  /\ InitRouter
  /\ NoFnCall
  /\ NoCsvCall
  /\ NoLogCall
  /\ NoListCall
  /\ NoGuiCall

NextList ==
  ProcConnect \/ ProcDisconnect \/ GetFileListBegin \/ GetFileListNlst

SpecList == InitList /\ [][NextList]_vars

\* ------------------------------------------------------------------------
\* ClinicalDataGUI: the operation handlers, their worker threads, check_queue
\* ------------------------------------------------------------------------

\* the most operations started in one run of the model
MaxOperations == 2

\* What a worker thread does, in order: the tag of each message it puts on
\* status_queue, and "work" for what it does between two messages (FTP
\* requests, renames, _log_error calls, the ledger write).

\* _process_worker: process_file of a ledgered file
ProcessSkipScript == <<"warning", "complete">>

\* _process_worker: the filename check fails; the file is moved and the
\* defect logged after the message of _validate_filename_pattern
ProcessBadNameScript ==
  <<"info", "work", "success", "error", "work", "error", "invalid_log",
    "complete">>

\* _process_worker: name and content are valid
ProcessValidScript ==
  <<"info", "work", "success", "success", "info", "success", "info",
    "success", "work", "success", "valid_log", "complete">>

\* _process_worker: content defects; 'Errors found: n' comes from
\* _validate_csv_content, the move and the _log_error calls follow
ProcessBadContentScript ==
  <<"info", "work", "success", "success", "info", "success", "info",
    "success", "error", "work", "error", "invalid_log", "complete">>

\* _validate_worker: the filename check fails
ValidateBadNameScript ==
  <<"info", "work", "error", "invalid", "invalid_log", "work", "complete">>

\* _validate_worker: name and content are valid
ValidateValidScript ==
  <<"info", "work", "success", "info", "success", "info", "success",
    "valid", "valid_log", "work", "complete">>

\* _connect_worker: connected and listed
ConnectScript == <<"work", "success", "work", "success", "complete">>

\* _connect_worker: connect() fails
ConnectFailedScript == <<"work", "error", "error", "complete">>

\* _disconnect_worker
DisconnectScript == <<"work", "success", "complete">>

\* _refresh_worker
RefreshScript == <<"work", "success", "success", "complete">>

\* _download_worker
DownloadScript == <<"work", "success", "success", "complete">>

\* _download_worker: the download fails
DownloadFailedScript == <<"work", "error", "error", "complete">>

WorkerScripts ==
  [connect    |-> {ConnectScript, ConnectFailedScript},
   disconnect |-> {DisconnectScript},
   refresh    |-> {RefreshScript},
   validate   |-> {ValidateBadNameScript, ValidateValidScript},
   process    |-> {ProcessSkipScript, ProcessBadNameScript,
                   ProcessValidScript, ProcessBadContentScript},
   download   |-> {DownloadScript, DownloadFailedScript}]

Operations == DOMAIN WorkerScripts

GuiFrame == UNCHANGED <<routerVars, fn_input, fn_result, fn_none, fn_raised,
                        csv_input, csv, lg, fl>>

\* the operations on the selected file, and those that build a
\* ClinicalDataValidator before they start their worker
FileOperations == {"validate", "process", "download"}

ValidatorOperations == {"validate", "process"}

\* the files shown in the listbox; selected_file = <<>> is None
displayed_files == {NameGood1, NameGood2}

\* a worker that has just been started on behalf of a request for the file
\* requested (the file named in current_operation and in the confirmation
\* dialog; <<>> for an operation that takes no file); it has not read
\* self.selected_file yet
NewWorker(o, script, requested) ==
  [operation |-> o, script |-> script, requested |-> requested,
   has_read |-> FALSE, file |-> <<>>]

\* connect_to_server, disconnect_from_server, refresh_files, validate_file,
\* process_file, download_file: if self.is_processing: return (the file
\* handlers: or not self.selected_file); otherwise is_processing = True,
\* validate_file and process_file construct the validator, which may raise
\* (mkdir, reading the ledger), and the worker thread is started
StartOperation ==
  /\ ~gui.is_processing
  /\ gui.started < MaxOperations
  /\ \E o \in Operations :
       /\ o \in FileOperations => gui.selected_file # <<>>
       /\ \/ \E script \in WorkerScripts[o] :
               gui' = [gui EXCEPT
                         !.is_processing = TRUE,
                         !.started = @ + 1,
                         !.workers =
                           Append(@, NewWorker(o, script,
                                               IF o \in FileOperations
                                                 THEN gui.selected_file
                                                 ELSE <<>>))]
          \/ /\ o \in ValidatorOperations
             /\ gui' = [gui EXCEPT !.is_processing = TRUE,
                                   !.started = @ + 1]
  /\ GuiFrame

\* on_file_selection: the clicked file, or None without a selection
on_file_selection ==
  /\ \E f \in displayed_files \cup {<<>>} :
       /\ f # gui.selected_file
       /\ gui' = [gui EXCEPT !.selected_file = f]
  /\ GuiFrame

\* filter_file_list: the selection is cleared when the search term changes
filter_file_list ==
  /\ gui.selected_file # <<>>
  /\ gui' = [gui EXCEPT !.selected_file = <<>>]
  /\ GuiFrame

\* workers without the i-th
WithoutWorker(workers, i) ==
  SubSeq(workers, 1, i - 1) \o SubSeq(workers, i + 1, Len(workers))

\* a worker thread does its next step; after its last it has finished.
\* The first step of a worker on a file evaluates self.selected_file, the
\* argument of the call it makes.
WorkerStep ==
  /\ \E i \in 1..Len(gui.workers) :
       LET w    == gui.workers[i]
           step == Head(w.script)
           rest == Tail(w.script)
           read == w.operation \in FileOperations /\ ~w.has_read
       IN  gui' = [gui EXCEPT
                     !.status_queue =
                       IF step = "work" THEN @ ELSE Append(@, step),
                     !.workers =
                       IF rest = <<>> THEN WithoutWorker(@, i)
                       ELSE [@ EXCEPT
                               ![i].script = rest,
                               ![i].has_read = @ \/ read,
                               ![i].file = IF read THEN gui.selected_file
                                           ELSE @]]
  /\ GuiFrame

\* check_queue: every message waiting is taken; a message tagged
\* "complete" or "error" sets is_processing = False
check_queue ==
  /\ gui.status_queue # <<>>
  /\ gui' = [gui EXCEPT
               !.status_queue = <<>>,
               !.is_processing =
                 IF \E k \in 1..Len(gui.status_queue) :
                      gui.status_queue[k] \in {"complete", "error"}
                   THEN FALSE ELSE @]
  /\ GuiFrame

InitGui ==
  /\ InitRouter
  /\ NoFnCall
  /\ NoCsvCall
  /\ NoLogCall
  /\ NoListCall
  /\ NoGuiCall

NextGui ==
  \/ StartOperation
  \/ on_file_selection
  \/ filter_file_list
  \/ WorkerStep
  \/ check_queue

SpecGui == InitGui /\ [][NextGui]_vars

\* Worker threads run on and the poller is rescheduled every 100 ms
\* (self.root.after(100, self.check_queue)).
FairSpecGui == SpecGui /\ WF_vars(WorkerStep) /\ WF_vars(check_queue)

\* ------------------------------------------------------------------------
\* Properties of the routing pipeline
\* ------------------------------------------------------------------------

\* process_file has just ended (returned or raised)
ProcessDone == op = "process" /\ pc = "idle"

\* the entries that logging msgs under file appends, in order
ExpectedLog(file, msgs) == [i \in 1..Len(msgs) |-> LogEntry(file, msgs[i])]

\* neither the in-memory ledger nor the ledger file changed during the call
LedgerUntouched ==
  /\ processed_files = pre.processed_files
  /\ ledger_file = pre.ledger_file

\* the call changed no file of the three directories
DirsUntouched ==
  /\ download_dir = pre.download_dir
  /\ archive_dir = pre.archive_dir
  /\ error_dir = pre.error_dir

\* the call appended nothing to the audit log
LogUntouched == error_log = <<>> /\ log_lines = pre.log_lines

\* C1: a call of process_file or validate_file on a filename that is in the
\* ledger returns at once in state Skipped, having downloaded nothing,
\* created, moved or deleted no file, made no _log_error call, appended
\* nothing to the audit log and left the ledger and its file as they were.
C1_LedgeredFileIsPureSkip ==
  (op \in {"process", "validate"} /\ filename \in pre.processed_files)
    => /\ pc = "idle" /\ state = "Skipped" /\ outcome = "returned"
       /\ obs = NoObs
       /\ DirsUntouched
       /\ LogUntouched
       /\ LedgerUntouched

\* a skip of a file that an earlier call archived
C1_Witness ==
  /\ ProcessDone /\ state = "Skipped"
  /\ filename \in archived_ever
  /\ archive_dir # EmptyDir

\* C2: when the name passes the filename check, the content has zero
\* defects and no I/O operation fails, process_file ends in Archived with the
\* staged file in the archive under CLINICALDATA<YYYYMMDD>.CSV of the
\* processing day, the original filename added to the ledger and the ledger
\* file rewritten; and at every moment of a process_file call the ledger or
\* its file differ from what they were only if the move into the archive
\* has already been made.
C2_ValidFileArchivedThenLedgered ==
  /\ (/\ ProcessDone
      /\ filename \notin pre.processed_files
      /\ _validate_filename_pattern(filename)
      /\ _validate_csv_content(remote[filename]).is_valid
      /\ obs.faults = {})
       => /\ state = "Archived" /\ outcome = "returned"
          /\ archive_dir =
               Put(pre.archive_dir, CanonicalName(today), remote[filename])
          /\ CanonicalName(today) # filename
          /\ download_dir = Remove(pre.download_dir, filename)
          /\ error_dir = pre.error_dir
          /\ processed_files = pre.processed_files \cup {filename}
          /\ ledger_file =
               [exists |-> TRUE, text |-> LedgerText(processed_files)]
          /\ LogUntouched
  /\ (op = "process" /\ ~LedgerUntouched)
       => /\ obs.moves = <<<<"archive", archive_filename>>>>
          /\ archive_filename \in DOMAIN archive_dir
          /\ filename \notin DOMAIN download_dir

\* a valid file archived and ledgered without any failure
C2_Witness ==
  /\ ProcessDone /\ state = "Archived" /\ obs.faults = {}
  /\ filename \in processed_files
  /\ CanonicalName(today) \in DOMAIN archive_dir

\* C3: when the name passes the filename check, the content has k >= 1
\* defect entries and nothing but audit logging fails, process_file ends in
\* Rejected with the staged file in the error directory under its original
\* name, nothing placed in the archive and the ledger untouched; it calls
\* _log_error exactly k times, once per defect entry in report order, and
\* when no append fails the audit log gained exactly these k entries.
C3_DefectiveFileRejectedWithOneEntryPerDefect ==
  (/\ ProcessDone
   /\ filename \notin pre.processed_files
   /\ _validate_filename_pattern(filename)
   /\ ~_validate_csv_content(remote[filename]).is_valid
   /\ obs.faults \subseteq {"log"})
    => LET k == Len(_validate_csv_content(remote[filename]).errors)
           expected == ExpectedLog(CanonicalName(today),
                         _validate_csv_content(remote[filename]).errors)
       IN  /\ k >= 1
           /\ state = "Rejected" /\ outcome = "returned"
           /\ error_dir = Put(pre.error_dir, filename, remote[filename])
           /\ download_dir = Remove(pre.download_dir, filename)
           /\ archive_dir = pre.archive_dir
           /\ LedgerUntouched
           /\ obs.log_calls = expected
           /\ Len(obs.log_calls) = k
           /\ obs.faults = {} => error_log = expected
           /\ log_lines = pre.log_lines

\* a file with two defect entries rejected with two audit entries
C3_Witness ==
  /\ ProcessDone /\ state = "Rejected" /\ obs.faults = {}
  /\ _validate_filename_pattern(filename)
  /\ Len(error_log) = 2
  /\ filename \in DOMAIN error_dir

\* C4: when the name fails the filename check, _validate_csv_content is
\* never invoked during the call; and when nothing but audit logging fails,
\* process_file ends in Rejected with the staged file unchanged in the error
\* directory under its original name, exactly one _log_error call with
\* 'Invalid filename pattern' (one audit entry when the append does not
\* fail), nothing placed in the archive and the ledger untouched.
C4_BadNameRejectedWithoutContentValidation ==
  /\ (op = "process" /\ ~_validate_filename_pattern(filename))
       => ~obs.validated
  /\ (/\ ProcessDone
      /\ filename \notin pre.processed_files
      /\ ~_validate_filename_pattern(filename)
      /\ obs.faults \subseteq {"log"})
       => LET expected == ExpectedLog(CanonicalName(today),
                                      <<"Invalid filename pattern">>)
          IN  /\ state = "Rejected" /\ outcome = "returned"
              /\ obs.name_checked
              /\ error_dir = Put(pre.error_dir, filename, remote[filename])
              /\ download_dir = Remove(pre.download_dir, filename)
              /\ archive_dir = pre.archive_dir
              /\ LedgerUntouched
              /\ obs.log_calls = expected
              /\ obs.faults = {} => error_log = expected
              /\ log_lines = pre.log_lines

\* wrongname.csv rejected with its one audit entry
C4_Witness ==
  /\ ProcessDone /\ state = "Rejected" /\ obs.faults = {}
  /\ filename = NameWrong
  /\ NameWrong \in DOMAIN error_dir
  /\ Len(error_log) = 1

\* C5: every ledgered filename was moved to the archive before, and when
\* process_file ends in Rejected or FailedFatal its filename is not in the
\* ledger.
C5_LedgerOnlyAfterArchive ==
  /\ processed_files \subseteq archived_ever
  /\ (ProcessDone /\ state \in {"Rejected", "FailedFatal"})
       => filename \notin processed_files

\* C6: when a rename or the ledger write raises in process_file, the call
\* ends in FailedFatal after exactly one _log_error call, with the in-memory
\* ledger and the ledger file as they were before the call.
C6_FailureLeavesLedgerUntouched ==
  (ProcessDone /\ obs.faults \cap {"rename", "write"} # {})
    => /\ state = "FailedFatal"
       /\ Len(obs.log_calls) = 1
       /\ LedgerUntouched

\* C7: when the download fails (open or retrieve) and nothing else does,
\* process_file ends in FailedFatal with exactly one audit entry, under the
\* canonical name of the day, no staged file left, nothing placed in the
\* archive or error directory, neither check run and the ledger untouched.
C7_DownloadFailureIsFatalAndCleanedUp ==
  (ProcessDone /\ obs.faults \in {{"retr"}, {"open"}})
    => /\ state = "FailedFatal" /\ outcome = "returned"
       /\ \E e \in {"open failed", "retr failed"} :
            error_log = ExpectedLog(CanonicalName(today),
                                    <<"Processing error: " \o e>>)
       /\ log_lines = pre.log_lines
       /\ download_dir = Remove(pre.download_dir, filename)
       /\ filename \notin DOMAIN download_dir
       /\ archive_dir = pre.archive_dir
       /\ error_dir = pre.error_dir
       /\ ~obs.name_checked /\ ~obs.validated
       /\ LedgerUntouched

\* a retrieval that failed after part of the file was staged, cleaned up
C7_Witness ==
  /\ ProcessDone /\ obs.faults = {"retr"}
  /\ obs.downloads = 1 /\ obs.unlinks = 1
  /\ Len(error_log) = 1

\* C8: process_file never raises to its caller.
C8_ProcessFileNeverRaises == ProcessDone => outcome = "returned"

\* the routing states of one file
TerminalStates == {"Skipped", "Archived", "Rejected", "FailedFatal"}

StageStates == {"Downloading", "FilenameCheck", "ContentCheck"}

\* the transitions the state list names: Downloading -> FilenameCheck ->
\* ContentCheck -> {Archived | Rejected}, FailedFatal from any stage
ListedTransition(s, t) ==
  \/ s = "Downloading" /\ t = "FilenameCheck"
  \/ s = "FilenameCheck" /\ t = "ContentCheck"
  \/ s = "ContentCheck" /\ t \in {"Archived", "Rejected"}
  \/ s \in StageStates /\ t = "FailedFatal"

\* a step of process_file: it starts the call in Skipped or Downloading, or
\* it keeps the routing state, or it takes a transition of allowed
RoutingStep(allowed(_, _)) ==
  op' = "process" =>
    IF pc = "idle"
      THEN state' \in {"Skipped", "Downloading"}
      ELSE state' = state \/ allowed(state, state')

\* every process_file call that has ended is in a terminal state, and one
\* that has not is in a stage or on its way out in FailedFatal
EndsInTerminalState ==
  op = "process" =>
    /\ pc = "idle" => state \in TerminalStates
    /\ pc # "idle" => state \in StageStates \cup {"FailedFatal"}
    /\ outcome = "returned" => pc = "idle"

\* C9 as stated: process_file ends in one of Skipped, Archived, Rejected,
\* FailedFatal, follows only the transitions Downloading -> FilenameCheck
\* -> ContentCheck -> {Archived | Rejected} with FailedFatal reachable from
\* any stage, and never stays in or returns from a stage.
C9_OnlyListedTransitions ==
  /\ []EndsInTerminalState
  /\ [][RoutingStep(ListedTransition)]_vars
  /\ (op = "process" /\ pc # "idle") ~> (op = "process" /\ pc = "idle")

\* the listed transitions and the one the filename rejection takes
ActualTransition(s, t) ==
  \/ ListedTransition(s, t)
  \/ s = "FilenameCheck" /\ t = "Rejected"

\* C9: every process_file call ends in exactly one of Skipped, Archived,
\* Rejected, FailedFatal; it follows only the transitions Downloading ->
\* FilenameCheck -> ContentCheck -> {Archived | Rejected}, FilenameCheck ->
\* Rejected, and FailedFatal from any stage; a call that is in a stage
\* eventually ends, and none returns from a stage.
C9_TerminatesAlongRoutingTransitions ==
  /\ []EndsInTerminalState
  /\ [][RoutingStep(ActualTransition)]_vars
  /\ (op = "process" /\ pc # "idle") ~> (op = "process" /\ pc = "idle")

\* a file rejected straight from the filename check
C9_Witness ==
  /\ ProcessDone /\ state = "Rejected"
  /\ obs.name_checked /\ ~obs.validated
  /\ calls = MaxCalls

\* the filename the claim describes: CLINICALDATA_, fourteen decimal
\* digits, .csv, compared without regard to case, and nothing else
WholeNameMatches(name) ==
  /\ Len(name) = Len(Prefix) + TimestampDigits + Len(ExtLower)
  /\ \A i \in 1..Len(Prefix) : Lower(name[i]) = Lower(Prefix[i])
  /\ \A i \in 1..TimestampDigits : name[Len(Prefix) + i] \in Digits
  /\ \A i \in 1..Len(ExtLower) :
       Lower(name[Len(Prefix) + TimestampDigits + i]) = ExtLower[i]

\* C10: _validate_filename_pattern returns True exactly for the filenames
\* that are, as a whole and case-insensitively, CLINICALDATA_ followed by
\* fourteen decimal digits followed by .csv, whatever date the digits spell;
\* every other string, the empty one included, returns False.
C10_TrueIffWholeNameMatches ==
  fn_result # <<>> => (fn_result[1] <=> WholeNameMatches(fn_input))

\* name is a filename of the claimed shape with at least one character
\* more in front of it or behind it
HasExtraCharacter(name) ==
  \E i \in 0..Len(name) : \E j \in i..Len(name) :
    /\ i > 0 \/ j < Len(name)
    /\ WholeNameMatches(SubSeq(name, i + 1, j))

\* C11: _validate_filename_pattern is anchored to the full string: a
\* filename with at least one extra character before the CLINICALDATA_
\* prefix or after the .csv suffix, a single trailing line break included,
\* is rejected.
C11_ExtraCharacterIsRejected ==
  (fn_result # <<>> /\ HasExtraCharacter(fn_input)) => fn_result = <<FALSE>>

\* C12: for a None filename _validate_filename_pattern returns False
\* without raising, as it does for the empty string.
C12_NoneIsInvalidWithoutRaising ==
  /\ fn_none => ~fn_raised
  /\ (fn_none /\ fn_result # <<>>) => fn_result = <<FALSE>>
  /\ (~fn_none /\ fn_input = <<>> /\ fn_result # <<>>) => fn_result = <<FALSE>>

\* ------------------------------------------------------------------------
\* Properties of _validate_csv_content
\* ------------------------------------------------------------------------

\* the step scans one data row (it is not the read error)
CsvRowStep ==
  /\ csv.pc = "rows" /\ csv.rows # <<>>
  /\ csv'.pc = "rows"

\* the row the step scans, the data rows scanned before it, its messages
ThisRow == Head(csv.rows)

EarlierRows == SubSeq(csv_input, 2, csv.row_num)

Has(msgs, m) == \E i \in 1..Len(msgs) : msgs[i] = m

\* the call returned a report of its own, on a file with the right header
CsvDone ==
  /\ csv.pc = "done" /\ ~csv.read_error
  /\ csv_input # <<>> /\ Head(csv_input) = expected_fields

\* Outcome: enum{Improved, NoChange, Worsened}
EnumOutcomes ==
  {<<"I", "m", "p", "r", "o", "v", "e", "d">>,
   <<"N", "o", "C", "h", "a", "n", "g", "e">>,
   <<"W", "o", "r", "s", "e", "n", "e", "d">>}

\* (PatientID, TrialCode, DrugCode)
CompositeKey(row) == <<row[1], row[2], row[3]>>

\* an earlier 9-field row of the pass has the composite key of row
KeySeenBefore(row, earlier) ==
  \E i \in 1..Len(earlier) :
    Len(earlier[i]) = FieldCount /\ CompositeKey(earlier[i]) = CompositeKey(row)

\* the field constraints a 9-field row violates
Violated(row, earlier) ==
  {c \in {"blank", "dosage", "dates", "outcome", "key"} :
     \/ c = "blank" /\ \E i \in 1..FieldCount : Strip(row[i]) = <<>>
     \/ c = "dosage" /\ ~(PyInt(row[4]).ok /\ PyInt(row[4]).val > 0)
     \/ c = "dates" /\ ~(/\ Strptime(row[5]).ok /\ Strptime(row[6]).ok
                         /\ Strptime(row[5]).ord <= Strptime(row[6]).ord)
     \/ c = "outcome" /\ row[7] \notin EnumOutcomes
     \/ c = "key" /\ KeySeenBefore(row, earlier)}

\* a blank field is also not a number, a date or an outcome: the one
\* constraint a row with one missing field violates is the blank one
ViolatesOne(row, earlier) ==
  \/ Len(row) # FieldCount
  \/ /\ Len(row) = FieldCount
     /\ \/ Cardinality(Violated(row, earlier)) = 1
        \/ /\ Cardinality({i \in 1..FieldCount : Strip(row[i]) = <<>>}) = 1
           /\ Violated([row EXCEPT ![4] = RowA[4], ![5] = RowA[5],
                                   ![6] = RowA[6], ![7] = RowA[7]],
                       earlier) \subseteq {"blank"}

\* C13: with a correct header, a 9-field row that meets every field
\* constraint adds no defect entry and increases the valid-record count by
\* one; a row that violates exactly one constraint adds exactly one defect
\* entry and leaves the valid-record count as it is.
C13_RowsCountedOrFlaggedOnce ==
  [][CsvRowStep =>
       /\ (Len(ThisRow) = FieldCount /\ Violated(ThisRow, EarlierRows) = {})
            => /\ csv'.errors = csv.errors
               /\ csv'.valid_records = csv.valid_records + 1
       /\ ViolatesOne(ThisRow, EarlierRows)
            => /\ Len(csv'.errors) = Len(csv.errors) + 1
               /\ csv'.valid_records = csv.valid_records]_vars

\* C14: when the first row differs from the expected nine column names in
\* any position, _validate_csv_content returns isValid = False, record
\* count 0 and the single defect 'Invalid header structure'; no data row is
\* read and no row-level defect is produced, whatever the data rows hold.
C14_HeaderMismatchShortCircuits ==
  (csv_input # <<>> /\ Head(csv_input) # expected_fields /\ ~csv.read_error)
    => /\ csv.pc # "rows"
       /\ csv.row_num = 0 /\ csv.history = <<>> /\ csv.seen_records = {}
       /\ csv.pc = "done"
            => csv.result = <<[is_valid |-> FALSE,
                               errors |-> <<"Invalid header structure">>,
                               count |-> 0]>>

\* a header in the wrong case in front of a defective row
C14_Witness ==
  /\ csv.pc = "done" /\ ~csv.read_error
  /\ Len(csv_input) > 1
  /\ csv_input[1] = HeaderLowerCase
  /\ csv_input[2] = RowB

\* record_errors of the row the step has scanned
NewMessages == csv'.history[Len(csv'.history)]

\* C15: within one pass the first 9-field row carrying a composite key gets
\* no 'Duplicate record' message and every later 9-field row carrying the
\* same key gets it, whatever other defects either row has; the seen-key
\* set is empty when a call starts to read.
C15_DuplicateIffKeySeenInThisPass ==
  /\ [][(CsvRowStep /\ Len(ThisRow) = FieldCount)
          => (Has(NewMessages, "Duplicate record")
                <=> KeySeenBefore(ThisRow, EarlierRows))]_vars
  /\ [](csv.pc = "header" => csv.seen_records = {})

\* C16: a row is flagged 'Duplicate record' only if an earlier row of the
\* pass has the same (PatientID, TrialCode, DrugCode) tuple, component by
\* component, also when field values contain the underscore character.
C16_DuplicateOnlyForEqualTuples ==
  [][(/\ CsvRowStep
      /\ Len(ThisRow) = FieldCount
      /\ Has(NewMessages, "Duplicate record"))
       => \E i \in 1..Len(EarlierRows) :
            /\ Len(EarlierRows[i]) = FieldCount
            /\ \A k \in 1..3 : EarlierRows[i][k] = ThisRow[k]]_vars

\* the data rows of the input, the header line apart
DataRowsScanned == Len(csv_input) - 1

\* the rows for which the pass found no defect
CleanRows == {i \in 1..Len(csv.history) : csv.history[i] = <<>>}

\* C17: for an input with the expected header that is read without error,
\* the verdict is True exactly when the defect list is empty, the record
\* count is the number of data rows without a defect, and so a True
\* verdict comes with a count equal to the number of data rows scanned.
C17_VerdictAndCountFromDefects ==
  CsvDone =>
    LET r == csv.result[1]
    IN  /\ Len(csv.history) = DataRowsScanned
        /\ r.is_valid <=> (csv.errors = <<>>)
        /\ r.errors = csv.errors
        /\ r.count = Cardinality(CleanRows)
        /\ r.is_valid => r.count = DataRowsScanned

\* a finished pass over two rows of which one is clean: count 1, not 2
C17_Witness ==
  /\ CsvDone
  /\ DataRowsScanned = 2
  /\ csv.result[1].count = 1
  /\ ~csv.result[1].is_valid

\* the pass is reading the data rows of a file with the expected header,
\* or has read them all and returned
CsvScanning ==
  \/ csv.pc = "rows"
  \/ CsvDone

\* C18: each data row scanned adds either one defect entry, 'Row n: ' and
\* all messages of the row joined by ', ', or one to the valid-record
\* count, never both and never neither; so the defect entries and the
\* record count add up to the rows scanned, during the pass and in the
\* returned result.
C18_OneEntryOrOneCountPerRow ==
  /\ [][CsvRowStep =>
          LET n == csv.row_num + 1
          IN  /\ csv'.row_num = n
              /\ NewMessages =
                   IF Len(ThisRow) # FieldCount
                     THEN <<"Expected 9 fields, got "
                            \o ToString(Len(ThisRow))>>
                     ELSE record_errors(ThisRow, csv.seen_records)
              /\ IF NewMessages # <<>>
                   THEN /\ csv'.errors =
                             Append(csv.errors,
                                    "Row " \o ToString(n) \o ": "
                                    \o JoinComma(NewMessages))
                        /\ csv'.valid_records = csv.valid_records
                   ELSE /\ csv'.errors = csv.errors
                        /\ csv'.valid_records = csv.valid_records + 1]_vars
  /\ [](CsvScanning =>
          Len(csv.errors) + csv.valid_records = Len(csv.history))
  /\ [](CsvDone =>
          Len(csv.result[1].errors) + csv.result[1].count = DataRowsScanned)

\* a clean row and then a row with two messages in its single entry
C18_Witness ==
  /\ CsvDone
  /\ csv.result[1].count = 1
  /\ csv.result[1].errors =
       <<"Row 3: Invalid dosage: -50, Duplicate record">>

\* C19: when opening, decoding or reading the file raises, at the header
\* or after any number of rows and defects, the call returns (it does not
\* raise) False, the single defect 'File read error: <message>' in place
\* of the accumulated ones, and count 0.
C19_ReadErrorReplacesEverything ==
  csv.read_error =>
    /\ csv.pc = "done"
    /\ csv.result = <<[is_valid |-> FALSE,
                       errors |-> <<"File read error: OSError">>,
                       count |-> 0]>>

\* the read fails after a clean row and a defective one
C19_Witness ==
  /\ csv.read_error
  /\ csv.row_num = 3
  /\ csv.errors # <<>>
  /\ csv.valid_records = 1

\* C20: the Outcome of a 9-field row passes iff it is one of Improved,
\* NoChange, Worsened; every other value adds 'Invalid outcome: <value>'.
C20_OutcomeIsOneOfTheEnumLiterals ==
  [][(CsvRowStep /\ Len(ThisRow) = FieldCount)
       => (ThisRow[7] \in EnumOutcomes
             <=> ~Has(NewMessages, "Invalid outcome: " \o Str(ThisRow[7])))]_vars

\* C21: a 9-field row with a field that is empty or only whitespace gets
\* 'Missing required fields' among its messages and is not counted as a
\* valid record.
C21_BlankFieldIsMissing ==
  [][(/\ CsvRowStep
      /\ Len(ThisRow) = FieldCount
      /\ \E i \in 1..FieldCount : Strip(ThisRow[i]) = <<>>)
       => /\ Has(NewMessages, "Missing required fields")
          /\ csv'.valid_records = csv.valid_records]_vars

\* ------------------------------------------------------------------------
\* Properties of _log_error and get_guid_from_api
\* ------------------------------------------------------------------------

\* the number of times the character c occurs in text
CountChar(text, c) ==
  Cardinality({i \in 1..Len(text) : SubSeq(text, i, i) = c})

\* text is one line: it ends in its only line break
OneLine(text) ==
  /\ CountChar(text, "\n") = 1
  /\ SubSeq(text, Len(text), Len(text)) = "\n"

\* a is the beginning of b
IsPrefix(a, b) == Len(a) <= Len(b) /\ SubSeq(b, 1, Len(a)) = a

LogDone == lg.pc = "done"

\* C22: _log_error never raises: when fetching the token or appending to
\* the audit log fails, the call still returns, and what it returns
\* without having appended is the one-line text 'Logging failed: ...'.
C22_LogErrorNeverRaises ==
  /\ ~lg.raised
  /\ LogDone =>
       /\ lg.result # <<>>
       /\ ~lg.appended =>
            /\ OneLine(lg.result[1])
            /\ IsPrefix("Logging failed: ", lg.result[1])

\* the token source failed and the fallback was used, then the append failed
C22_Witness ==
  /\ LogDone
  /\ lg.source = "local"
  /\ ~lg.appended
  /\ lg.result =
       <<"Logging failed: [Errno 13] Permission denied: 'error_report.log'\n">>

\* the token source did not deliver a token
TokenSourceFailed(answer) ==
  \/ answer.exc # ""
  \/ answer.status # 200
  \/ answer.type \in {"malformed", "other"}
  \/ answer.type = "list" /\ answer.items = <<>>
  \/ answer.type = "dict" /\ answer.uuid = <<>>

\* open() and f.write() did not fail in this call
AppendNotFailed == lg.log_entry # "" => lg.appended

\* C23: whatever way the token source fails (it raises a request error or
\* any other error, answers with another status than 200, or with a body
\* that is malformed or not of the expected shape), _log_error appends and
\* returns the line '[<timestamp>] GUID: <token> | File: <filename> |
\* Error: <message>' with a locally generated token.
C23_TokenSourceFailureStillLogs ==
  (/\ LogDone
   /\ lg.answer # <<>>
   /\ TokenSourceFailed(lg.answer[1])
   /\ AppendNotFailed)
    => /\ lg.appended
       /\ lg.guid \in LocalUuids
       /\ lg.result = <<FormatLogEntry(Timestamp, lg.guid, lg.filename,
                                       lg.error_details)>>
       /\ IsPrefix(lg.result[1],
                   SubSeq(lg.file, Len(lg.file) - Len(lg.result[1]) + 1,
                          Len(lg.file)))

\* the token of a log line: the text between 'GUID: ' and ' | File: '
TokenOf(line) ==
  LET start == Len("[" \o Timestamp \o "] GUID: ") + 1
      stop  == CHOOSE k \in start..Len(line) :
                 /\ SubSeq(line, k, k + 8) = " | File: "
                 /\ \A j \in start..(k - 1) :
                      SubSeq(line, j, j + 8) # " | File: "
  IN  SubSeq(line, start, stop - 1)

\* a 36-character identifier with four hyphens
UuidShaped(token) == Len(token) = 36 /\ CountChar(token, "-") = 4

\* C24: the token of every line that _log_error appends is a 36-character
\* identifier with four hyphens, from the external source as from the
\* local fallback.
C24_TokenIsUuidShaped ==
  (LogDone /\ lg.appended) =>
    /\ lg.source \in {"api", "local"}
    /\ UuidShaped(TokenOf(lg.log_entry))

\* text is made of whole lines
WholeLines(text) ==
  text = "" \/ SubSeq(text, Len(text), Len(text)) = "\n"

\* the step in which _log_error appends its entry
LogAppendStep == ~lg.appended /\ lg'.appended

\* C25: error_report.log only grows at its end by whole lines: what it
\* held before a step is the beginning of what it holds after, and a
\* _log_error call that succeeds adds exactly one line.
C25_AuditLogGrowsByOneLine ==
  [][/\ IsPrefix(lg.file, lg'.file)
     /\ WholeLines(lg'.file)
     /\ LogAppendStep =>
          CountChar(lg'.file, "\n") = CountChar(lg.file, "\n") + 1
     /\ ~LogAppendStep => lg'.file = lg.file]_vars

\* the source answered 200 with a JSON list that is not empty
AnsweredWithList(answer) ==
  /\ answer.exc = "" /\ answer.status = 200
  /\ answer.type = "list" /\ answer.items # <<>>

\* C27: when the source answers 200 with a non-empty JSON list,
\* get_guid_from_api returns the first element as it is and the line
\* _log_error returns has it as its GUID; when the request raises a
\* request error, get_guid_from_api returns str(uuid.uuid4()).
C27_FirstElementOrLocalUuid ==
  (lg.answer # <<>> /\ AppendNotFailed) =>
    /\ AnsweredWithList(lg.answer[1]) =>
         /\ lg.guid = lg.answer[1].items[1]
         /\ LogDone => TokenOf(lg.result[1]) = lg.answer[1].items[1]
    /\ lg.answer[1].exc \in RequestExceptions =>
         /\ lg.guid \in LocalUuids
         /\ lg.source = "local"

\* the token the source sent is the GUID of the returned line
C27_Witness ==
  /\ LogDone
  /\ lg.appended
  /\ AnsweredWithList(lg.answer[1])
  /\ TokenOf(lg.result[1]) = ApiShortToken

\* ------------------------------------------------------------------------
\* Properties of the ledger file
\* ------------------------------------------------------------------------

\* every line followed by a line break
RECURSIVE TerminatedLines(_)
TerminatedLines(lines) ==
  IF lines = <<>> THEN <<>>
  ELSE lines[1] \o <<"\n">> \o TerminatedLines(Tail(lines))

\* the step in which _save_processed_file has written the ledger file
LedgerWritten == obs'.ledger_writes = obs.ledger_writes + 1

\* C26: after a ledger addition the ledger file holds the in-memory set of
\* processed filenames, one per line in lexicographic order, no header,
\* every line ended by a line break; a validator constructed afterwards
\* loads exactly that set.
C26_LedgerFileIsTheSortedSet ==
  [][LedgerWritten =>
       /\ ledger_file'.exists
       /\ ledger_file'.text = TerminatedLines(Sorted(processed_files'))
       /\ _load_processed_files(ledger_file') = processed_files']_vars

\* ------------------------------------------------------------------------
\* Properties of get_file_list
\* ------------------------------------------------------------------------

\* the name ends in '.csv', letters compared without regard to case
IsCsvName(name) ==
  /\ Len(name) >= 4
  /\ [i \in 1..4 |-> Lower(name[Len(name) - 4 + i])] = <<".", "c", "s", "v">>

\* how often x occurs in list
Occurrences(list, x) == Cardinality({i \in 1..Len(list) : list[i] = x})

Ascending(list) ==
  \A i, j \in 1..Len(list) : i < j => ~LexLess(list[j], list[i])

ListDone == fl.pc = "done"

\* C28: connected, get_file_list returns exactly the listed names that end
\* in '.csv' (case-insensitively) in ascending order and reports 'Found N
\* CSV files', N the length of the result, or 'No CSV files found' when
\* there is none; not connected, it returns the empty list and asks the
\* server nothing; when the listing fails it returns the empty list.
C28_ListsCsvNamesSorted ==
  ListDone =>
    LET r == fl.result[1]
    IN  IF ~fl.ftp \/ ~fl.connected
          THEN r = <<>> /\ fl.nlst_calls = 0
        ELSE IF fl.failed
          THEN r = <<>> /\ fl.nlst_calls = 1
        ELSE /\ fl.nlst_calls = 1
             /\ Ascending(r)
             /\ \A name \in ListedNames :
                  Occurrences(r, name) =
                    IF IsCsvName(name) THEN Occurrences(fl.files, name)
                    ELSE 0
             /\ fl.messages =
                  <<IF Len(r) = 0 THEN "No CSV files found"
                    ELSE "Found " \o ToString(Len(r)) \o " CSV files">>

\* two of three listed names are CSV files, listed in descending order
C28_Witness ==
  /\ ListDone
  /\ fl.files = <<<<"d", "a", "t", "a", ".", "C", "S", "V">>,
                  <<"r", "e", "p", "o", "r", "t", ".", "p", "d", "f">>,
                  NameGood1>>
  /\ fl.result = <<<<NameGood1, <<"d", "a", "t", "a", ".", "C", "S", "V">>>>>>
  /\ fl.messages = <<"Found 2 CSV files">>

\* ------------------------------------------------------------------------
\* Properties of the GUI shell
\* ------------------------------------------------------------------------

\* C29: at most one worker operation is in flight: while a worker thread
\* has not finished, is_processing is True (so that every request to
\* start another operation is refused) and no second worker runs.
C29_OneOperationInFlight ==
  /\ Len(gui.workers) <= 1
  /\ gui.workers # <<>> => gui.is_processing

\* ------------------------------------------------------------------------
\* Where process_file puts a file
\* ------------------------------------------------------------------------

\* the content validation finds no defect in content
ZeroDefects(content) == _validate_csv_content(content).is_valid

\* the kinds of the moves the current call has made
MoveKinds == {obs.moves[i][1] : i \in 1..Len(obs.moves)}

\* C30: in every reachable state, a file is in the archive only if its
\* original filename passed the filename check and its content has zero
\* defects; a call moves the file to the error directory only if one of
\* the two checks failed; no call puts the file in both places.
C30_ArchiveOnlyValidErrorOnlyInvalid ==
  /\ \A n \in DOMAIN archive_dir : ZeroDefects(archive_dir[n])
  /\ \A f \in archived_ever :
       _validate_filename_pattern(f) /\ ZeroDefects(remote[f])
  /\ "archive" \in MoveKinds =>
       /\ obs.name_checked /\ _validate_filename_pattern(filename)
       /\ obs.validated /\ ZeroDefects(archive_dir[archive_filename])
       /\ "read" \notin obs.faults
  /\ "error" \in MoveKinds =>
       \/ obs.name_checked /\ ~_validate_filename_pattern(filename)
       \/ obs.validated /\ ~ZeroDefects(error_dir[filename])
       \/ obs.validated /\ "read" \in obs.faults
  /\ Len(obs.moves) <= 1

\* one file was archived and then another one rejected for its content
C30_Witness ==
  /\ pc = "idle"
  /\ archived_ever # {}
  /\ "error" \in MoveKinds
  /\ _validate_filename_pattern(filename)
  /\ DOMAIN archive_dir # {}
  /\ filename \in DOMAIN error_dir

\* ------------------------------------------------------------------------
\* Canonical names, staged copies and the audit entries of the router
\* ------------------------------------------------------------------------

\* the step in which process_file moves the staged file to the archive
ArchivedStep == archived_ever' # archived_ever

\* the canonical names of the days up to day
NamesUpTo(day) == {CanonicalName(d) : d \in 1..day}

\* C31: the archive name depends on the processing date only: a file is
\* archived as CLINICALDATA<date>.CSV whatever its own name, replacing what
\* the archive held under that name, so two valid files of one day leave a
\* single file (the later one) in the archive, and the ledger holds both
\* original filenames.
C31_SameDayFilesShareTheArchiveName ==
  /\ [][ArchivedStep =>
          /\ archive_filename = CanonicalName(today)
          /\ archive_dir' = Put(archive_dir, CanonicalName(today),
                                download_dir[filename])]_vars
  /\ [](DOMAIN archive_dir \subseteq NamesUpTo(today))
  /\ []((pc = "idle" /\ nfaults = 0) => archived_ever \subseteq processed_files)

\* two different valid files archived on day 1: one file in the archive,
\* the second one's content, both names in the ledger
C31_Witness ==
  /\ pc = "idle" /\ nfaults = 0 /\ today = 1
  /\ state = "Archived"
  /\ archived_ever = {NameGood1, NameGood2}
  /\ DOMAIN archive_dir = {CanonicalName(1)}
  /\ archive_dir[CanonicalName(1)] = remote[filename]
  /\ \E f \in archived_ever : remote[f] # remote[filename]
  /\ processed_files = {NameGood1, NameGood2}

\* validate_file is running or was the last call
InValidate == op = "validate"

\* validate_file has returned
ValidateReturned == op = "validate" /\ pc = "idle" /\ outcome = "returned"

\* the download directory is as before the call, the temporary copy apart
OnlyTempCopyDiffers ==
  \A n \in (DOMAIN download_dir \cup DOMAIN pre.download_dir)
             \ {TempName(filename)} :
    /\ n \in DOMAIN download_dir /\ n \in DOMAIN pre.download_dir
    /\ download_dir[n] = pre.download_dir[n]

\* the entries validate_file has to log for the file
ValidateDefects(f) ==
  IF _validate_filename_pattern(f)
    THEN _validate_csv_content(remote[f]).errors
    ELSE <<"Invalid filename pattern">>

\* C32: validate_file never changes the ledger and puts nothing in the
\* archive or error directory; for a file not in the ledger all it leaves
\* behind are audit entries (one per defect entry, or one for a bad
\* filename, or one for a failure), and when it returns its temporary
\* staged copy is gone.
C32_ValidateFileLeavesOnlyAuditEntries ==
  /\ InValidate =>
       /\ LedgerUntouched
       /\ archive_dir = pre.archive_dir
       /\ error_dir = pre.error_dir
       /\ OnlyTempCopyDiffers
  /\ ValidateReturned =>
       /\ state # "Skipped" => TempName(filename) \notin DOMAIN download_dir
       /\ (state # "Skipped" /\ obs.faults = {}) =>
            /\ error_log = ExpectedLog(archive_filename,
                                       ValidateDefects(filename))
            /\ obs.log_calls = error_log
       /\ (state = "FailedFatal" /\ "log" \notin obs.faults) =>
            /\ error_log # <<>>
            /\ error_log[Len(error_log)] =
                 LogEntry(CanonicalName(today), "Validation error: " \o exc)

\* a file with two defect entries was validated: two audit entries, no
\* staged copy left
C32_Witness ==
  /\ ValidateReturned
  /\ state = "Invalid"
  /\ obs.downloads = 1
  /\ Len(error_log) = 2
  /\ download_dir = pre.download_dir

\* the keys of the 9-field rows among rows
KeysOfFullRows(rows) ==
  {RecordKey(rows[i]) : i \in {j \in 1..Len(rows) : Len(rows[j]) = FieldCount}}

\* C33: a data row whose field count is not 9 adds the single defect
\* 'Expected 9 fields, got <count>' and no other message, is not counted
\* as a valid record, and its key is not recorded: the seen keys are those
\* of the 9-field rows only, so such a row is neither flagged as nor the
\* cause of a 'Duplicate record'.
C33_WrongFieldCountRowIsSetAside ==
  /\ [][(CsvRowStep /\ Len(ThisRow) # FieldCount) =>
          /\ NewMessages =
               <<"Expected 9 fields, got " \o ToString(Len(ThisRow))>>
          /\ csv'.errors =
               Append(csv.errors,
                      "Row " \o ToString(csv.row_num + 1)
                        \o ": Expected 9 fields, got "
                        \o ToString(Len(ThisRow)))
          /\ csv'.valid_records = csv.valid_records
          /\ csv'.seen_records = csv.seen_records]_vars
  /\ [](csv.pc = "rows" => csv.seen_records = KeysOfFullRows(EarlierRows))

\* a 3-field row P001,T001,D001 and then a clean 9-field row with the same
\* three leading fields: one defect, one valid record, no duplicate
C33_Witness ==
  /\ CsvDone
  /\ csv_input = <<expected_fields, RowShort, RowA>>
  /\ SubSeq(RowA, 1, 3) = RowShort
  /\ csv.result[1].errors = <<"Row 2: Expected 9 fields, got 3">>
  /\ csv.result[1].count = 1

\* the dosage messages among msgs
DosageMessages(msgs) ==
  SelectSeq(msgs, LAMBDA m : \/ IsPrefix("Non-numeric dosage", m)
                             \/ IsPrefix("Invalid dosage", m))

\* what int() makes of the dosage texts of the inputs: ok = FALSE where it
\* raises ValueError
IntOfDosage(text) ==
  CASE text = "100" -> [ok |-> TRUE, val |-> 100]
    [] text = "-50" -> [ok |-> TRUE, val |-> 0 - 50]
    [] text = "0" -> [ok |-> TRUE, val |-> 0]
    [] text = " 7 " -> [ok |-> TRUE, val |-> 7]
    [] text = "1_0" -> [ok |-> TRUE, val |-> 10]
    [] text = "abc" -> [ok |-> FALSE, val |-> 0]
    [] text = "1.5" -> [ok |-> FALSE, val |-> 0]

\* C34: a 9-field row gets 'Non-numeric dosage' exactly when its dosage
\* does not parse as an integer, 'Invalid dosage' exactly when it parses to
\* a value of at most 0, and neither when it parses to a value above 0; a
\* file whose only row has dosage -50 gets the one defect 'Invalid dosage'
\* and a record count of 0.
C34_DosageMessagesFollowTheParsedValue ==
  /\ [][(CsvRowStep /\ Len(ThisRow) = FieldCount) =>
          LET text == Str(ThisRow[4])
              v    == IntOfDosage(text)
          IN  DosageMessages(NewMessages) =
                IF ~v.ok THEN <<"Non-numeric dosage: " \o text>>
                ELSE IF v.val <= 0 THEN <<"Invalid dosage: " \o text>>
                ELSE <<>>]_vars
  /\ []((CsvDone /\ csv_input = <<expected_fields, RowB>>) =>
          /\ csv.result[1].errors = <<"Row 2: Invalid dosage: -50">>
          /\ csv.result[1].count = 0)

\* a dosage of 0 and a dosage of 1.5 have been scanned: 'Invalid dosage'
\* for the first, 'Non-numeric dosage' for the second, no record counted
C34_Witness ==
  /\ CsvDone
  /\ csv_input = <<expected_fields, RowDoseZero, RowDoseDecimal>>
  /\ csv.history[1] = <<"Invalid dosage: 0">>
  /\ csv.history[2] = <<"Non-numeric dosage: 1.5", "Duplicate record">>
  /\ csv.result[1].count = 0

\* the defect entries of the data rows k, k + 1, ... in that order, the k-th
\* data row labelled k + 1; history holds the messages of each data row
RECURSIVE EntriesFrom(_, _)
EntriesFrom(history, k) ==
  IF k > Len(history) THEN <<>>
  ELSE (IF history[k] = <<>> THEN <<>>
        ELSE <<"Row " \o ToString(k + 1) \o ": " \o JoinComma(history[k])>>)
       \o EntriesFrom(history, k + 1)

\* C35: the defect entries stand in increasing row order, each labelled
\* with the 1-based position of its row counting the header as row 1 (the
\* k-th data row is row k + 1), also when earlier rows were set aside for a
\* wrong field count.
C35_DefectEntriesInRowOrder ==
  /\ csv.pc = "rows" =>
       /\ csv.row_num = Len(csv.history) + 1
       /\ csv.errors = EntriesFrom(csv.history, 1)
  /\ CsvDone => csv.result[1].errors = EntriesFrom(csv.history, 1)

\* a 3-field row and then a row with dosage -50: rows 2 and 3, in order
C35_Witness ==
  /\ CsvDone
  /\ csv_input = <<expected_fields, RowShort, RowB>>
  /\ csv.result[1].errors =
       <<"Row 2: Expected 9 fields, got 3", "Row 3: Invalid dosage: -50">>

\* C36: whenever a GUI operation has set is_processing to True, the flag
\* eventually returns to False, provided the queue poller keeps running:
\* on success and on every failure path, a failure while the validator is
\* constructed (before the worker thread is started) included.
C36_IsProcessingEventuallyCleared ==
  gui.is_processing ~> ~gui.is_processing

\* C37: the file a validate, process or download worker operates on is the
\* file that was selected when the user started (and confirmed) the
\* operation, also when the selection or the search filter changes before
\* the worker thread reads the selection.
C37_WorkerOperatesOnRequestedFile ==
  \A i \in 1..Len(gui.workers) :
    gui.workers[i].has_read => gui.workers[i].file = gui.workers[i].requested

\* process_file has returned to its caller
ProcessReturned == ProcessDone /\ outcome = "returned"

\* C38: after process_file has returned in a terminal state other than
\* Skipped (Archived, Rejected or FailedFatal), no staged copy of the file
\* is left in the download location.
C38_NoStagedCopyAfterReturn ==
  (ProcessReturned /\ state # "Skipped") =>
    /\ state \in {"Archived", "Rejected", "FailedFatal"}
    /\ filename \notin DOMAIN download_dir

\* the staged file could not be moved: the call returned in FailedFatal
\* after its exception handler removed the copy
C38_Witness ==
  /\ ProcessReturned
  /\ state = "FailedFatal"
  /\ obs.faults = {"rename"}
  /\ obs.downloads = 1 /\ obs.unlinks = 1
  /\ filename \notin DOMAIN download_dir

\* the _log_error calls the step makes
NewLogCalls == SubSeq(obs'.log_calls, Len(obs.log_calls) + 1,
                      Len(obs'.log_calls))

\* the step is one of process_file or validate_file and calls _log_error
LoggingStep ==
  /\ op' \in {"process", "validate"}
  /\ Len(obs'.log_calls) > Len(obs.log_calls)

\* C40: every audit entry process_file or validate_file appends carries
\* in 'File:' the canonical name CLINICALDATA<YYYYMMDD>.CSV of the day of
\* processing and never the name of the file on the server, on the
\* filename-failure, content-defect and exception paths alike; the value
\* does not depend on the source file, so two files handled on the same
\* day get the same 'File:' value.
C40_AuditEntriesCarryTheCanonicalName ==
  /\ [][LoggingStep =>
          \A i \in 1..Len(NewLogCalls) :
            /\ NewLogCalls[i].file = Str(CanonicalName(today'))
            /\ NewLogCalls[i].file # Str(filename')]_vars
  /\ [](\A i \in 1..Len(error_log) :
          /\ error_log[i].file \in {Str(n) : n \in NamesUpTo(today)}
          /\ error_log[i].file \notin {Str(f) : f \in RemoteNames})

\* the second file of the day, one with a bad name, after a first file
\* whose two defects were logged: its entry carries the same canonical
\* name
C40_Witness ==
  /\ ProcessReturned
  /\ today = 1 /\ calls = 2
  /\ pre.log_lines = 2
  /\ filename = NameWrong
  /\ error_log =
       ExpectedLog(CanonicalName(1), <<"Invalid filename pattern">>)

\* C39: after ClinicalDataProcessor.disconnect() has returned, connected
\* is False, also when quit() raised; so a get_file_list after a
\* disconnect returns the empty list without asking the server.
C39_DisconnectedAfterDisconnect ==
  fl.disconnected =>
    /\ ~fl.connected
    /\ fl.nlst_calls = 0
    /\ ListDone => fl.result = <<<<>>>>

====
